---------------------------- MODULE Spec2Model ----------------------------
(***************************************************************************)
(* A model of the request pipeline of FP-WebServer: the path matcher       *)
(* (router/matcher.hpp), the immutable router and its dispatch             *)
(* (router/router.hpp) and the middleware composer                         *)
(* (router/middleware.hpp), the parser combinators (parser/combinaor.hpp)   *)
(* and the HTTP request grammar built from them (parser/http_parser.hpp,   *)
(* parser/types.hpp).                                                      *)
(*                                                                         *)
(* Strings are sequences of one-character strings, so that the code's      *)
(* character loops can be followed index by index.                         *)
(***************************************************************************)
EXTENDS Integers, Sequences, FiniteSets, TLC

VARIABLES
    pp,        \* the PathPattern object under test: pattern_, regex_, param_names_
    mpath,     \* argument of the last PathPattern::match call, or NoCall
    mres,      \* result of the last PathPattern::match call
    routers,   \* every Router value built so far: routers[i] is its *routes_
    rcall,     \* the last find()/handle() call on a router and what it returned
    invoked,   \* handlers invoked by the last handle() call, in order
    chain,     \* the middleware list and the handler compose() built from it
    creq,      \* the request the composed handler is running on
    stack,     \* call stack of the composed handler's invocation
    ret,       \* response being returned up the stack (NoCall while descending)
    log,       \* probe events of the invocation, in order
    pcall,     \* the last call of an HTTP grammar parser and what it returned
    ccall,     \* the last run of a combinator-built parser and what it returned
    heap,      \* route tables allocated by make_shared while threads share a router
    shared,    \* the router the threads share, as it was constructed
    threads,   \* each thread's position inside find() or route() on that router
    chan,      \* a Channel used on its own: queue_, closed_, max_size_
    cthreads,  \* each thread's position inside send() or recv() on that channel
    pool,      \* a ThreadPool: task_channel_, running_, tasks accepted and executed
    pthreads,  \* the pool's workers and the threads calling submit() and shutdown()
    sink,      \* an AsyncSink: channel_ and what its inner sink has been given
    sthreads   \* the sink's worker and the thread calling write() and flush()

matcherVars == <<pp, mpath, mres>>
routerVars  == <<routers, rcall, invoked>>
composeVars == <<chain, creq, stack, ret, log>>
parserVars  == <<pcall, ccall>>
sharedVars  == <<heap, shared, threads>>
channelVars == <<chan, cthreads>>
seqVars     == <<matcherVars, routerVars, composeVars, parserVars>>
poolVars    == <<pool, pthreads>>
sinkVars    == <<sink, sthreads>>
asyncVars   == <<sharedVars, channelVars, poolVars, sinkVars>>
notShared   == <<seqVars, channelVars, poolVars, sinkVars>>
notChannel  == <<seqVars, sharedVars, poolVars, sinkVars>>
notPool     == <<seqVars, sharedVars, channelVars, sinkVars>>
notSink     == <<seqVars, sharedVars, channelVars, poolVars>>
vars == <<pp, mpath, mres, routers, rcall, invoked, chain, creq, stack, ret, log,
          pcall, ccall, heap, shared, threads, chan, cthreads, pool, pthreads,
          sink, sthreads>>

-----------------------------------------------------------------------------
(* Bounds of the model.                                                    *)

MaxPatLen  == 3     \* longest enumerated route pattern
MaxPathLen == 3     \* longest enumerated request path
MaxRouters == 3     \* Router values built in one behaviour
MaxMw      == 3     \* longest middleware list given to compose

-----------------------------------------------------------------------------
(* Strings.                                                                *)

\* What a variable that records a call holds before any call: a sequence no
\* string of characters equals.
NoCall == <<"NoCall">>

\* The strings over alphabet S of length at most n.
Strings(S, n) == UNION {[1..k -> S] : k \in 0..n}

\* s.substr(k): s without its first k characters.
Drop(s, k) == SubSeq(s, k + 1, Len(s))

\* The first k characters of s.
Take(s, k) == SubSeq(s, 1, k)

\* Characters of route patterns: the three the constructor tests for, a
\* literal that needs escaping and a plain literal.
PatChars == {"/", ":", "*", ".", "a"}

\* Characters of request paths.
PathChars == {"/", ".", "a", "b"}

\* The documented examples (router/README.md, "路径参数", "通配符路径",
\* "支持的模式") as character sequences.
PatUsersId    == <<"/", "u", "s", "e", "r", "s", "/", ":", "i", "d">>
PatStaticPath == <<"/", "s", "t", "a", "t", "i", "c", "/", "*", "p", "a", "t", "h">>
PatApiUsers   == <<"/", "a", "p", "i", "/", "u", "s", "e", "r", "s">>
PathUsers42   == <<"/", "u", "s", "e", "r", "s", "/", "4", "2">>
PathUsers42x  == <<"/", "u", "s", "e", "r", "s", "/", "4", "2", "/", "x">>
PathStaticAB  == <<"/", "s", "t", "a", "t", "i", "c", "/", "a", "/", "b", ".", "c", "s", "s">>

ExamplePatterns == {PatUsersId, PatStaticPath, PatApiUsers}
ExamplePaths    == {PathUsers42, PathUsers42x, PathStaticAB, PatApiUsers}

Patterns == Strings(PatChars, MaxPatLen) \cup ExamplePatterns
Paths    == Strings(PathChars, MaxPathLen) \cup ExamplePaths


-----------------------------------------------------------------------------
(* router/matcher.hpp: PathPattern.                                        *)

\* The pieces the constructor appends to regex_str, character by character.
SegCapture  == <<"(", "[", "^", "/", "]", "+", ")">>
RestCapture == <<"(", ".", "*", ")">>
WildcardName == <<"w", "i", "l", "d", "c", "a", "r", "d">>

\* The locals of the constructor before its loop.
CtorStart ==
    [regex_str |-> <<"^">>, current_segment |-> <<>>, in_param |-> FALSE,
     param_names |-> <<>>, brk |-> FALSE]

\* CloseParam with the parameter compiled to a group that also takes '/'.
CloseParamGreedy(st, c, last) ==
    IF st.in_param
    THEN LET seg == IF last /\ c # "/"
                    THEN Append(st.current_segment, c)
                    ELSE st.current_segment
         IN  [st EXCEPT !.current_segment = seg,
                        !.param_names = Append(@, seg),
                        !.regex_str = @ \o RestCapture,
                        !.in_param = FALSE]
    ELSE st

\* The `if (in_param)` block that closes a parameter at a '/' or at the last
\* character.
CloseParam(st, c, last) ==
    IF st.in_param
    THEN LET seg == IF last /\ c # "/"
                    THEN Append(st.current_segment, c)
                    ELSE st.current_segment
         IN  [st EXCEPT !.current_segment = seg,
                        !.param_names = Append(@, seg),
                        !.regex_str = @ \o SegCapture,
                        !.in_param = FALSE]
    ELSE st

\* The literal branch: '.', '?' and '+' are escaped with a backslash.
EmitLiteral(regex_str, c) ==
    IF c \in {".", "?", "+"}
    THEN regex_str \o <<"\\", c>>
    ELSE Append(regex_str, c)

\* One iteration of the constructor's loop, at the 1-based index i.  A
\* character that is neither ':' nor '/' nor the last one of the pattern takes
\* neither branch of the if/else-if and changes nothing.
CtorStep(pattern, i, st) ==
    LET c    == pattern[i]
        last == (i = Len(pattern))
    IN  IF c = ":"
        THEN [st EXCEPT !.in_param = TRUE, !.current_segment = <<>>]
        ELSE IF c = "/" \/ last
        THEN LET s1 == CloseParam(st, c, last)
             IN  IF c = "/"
                 THEN [s1 EXCEPT !.regex_str = Append(@, "/")]
                 ELSE IF c = "*"
                 THEN [s1 EXCEPT !.param_names = Append(@, WildcardName),
                                 !.regex_str = @ \o RestCapture,
                                 !.brk = TRUE]
                 ELSE IF s1.in_param
                 THEN [s1 EXCEPT !.current_segment = Append(@, c)]
                 ELSE [s1 EXCEPT !.regex_str = EmitLiteral(@, c)]
        ELSE st

\* The constructor's loop from index i on; `break` leaves it.
RECURSIVE CtorLoop(_, _, _)
CtorLoop(pattern, i, st) ==
    IF i > Len(pattern) \/ st.brk
    THEN st
    ELSE CtorLoop(pattern, i + 1, CtorStep(pattern, i, st))

\* PathPattern(pattern): the object the constructor leaves.
PathPatternCtor(pattern) ==
    LET st == CtorLoop(pattern, 1, CtorStart)
    IN  [pattern_ |-> pattern,
         regex_ |-> Append(st.regex_str, "$"),
         param_names_ |-> st.param_names]

\* PathPattern() = default: an empty pattern and a regex that matches nothing
\* (written as the empty regex string, which the constructor never builds).
PathPatternDefault ==
    [pattern_ |-> <<>>, regex_ |-> <<>>, param_names_ |-> <<>>]

-----------------------------------------------------------------------------
(* std::regex on the strings the constructor builds: `^` and `$` anchors,  *)
(* `/`, the two capture groups, `\c` for an escaped character, `.` for any *)
(* character and every other character of the alphabets for itself.        *)

\* Is t a prefix of s?
StartsWith(s, t) == Len(s) >= Len(t) /\ Take(s, Len(t)) = t

\* std::regex(regex_str): the regex string read into a list of tokens.
RECURSIVE RegexTokens(_)
RegexTokens(rs) ==
    IF rs = <<>> THEN <<>>
    ELSE IF StartsWith(rs, SegCapture)
    THEN <<[t |-> "seg"]>> \o RegexTokens(Drop(rs, Len(SegCapture)))
    ELSE IF StartsWith(rs, RestCapture)
    THEN <<[t |-> "rest"]>> \o RegexTokens(Drop(rs, Len(RestCapture)))
    ELSE IF rs[1] = "\\" /\ Len(rs) >= 2
    THEN <<[t |-> "lit", c |-> rs[2]]>> \o RegexTokens(Drop(rs, 2))
    ELSE IF rs[1] = "^" THEN <<[t |-> "bol"]>> \o RegexTokens(Drop(rs, 1))
    ELSE IF rs[1] = "$" THEN <<[t |-> "eol"]>> \o RegexTokens(Drop(rs, 1))
    ELSE IF rs[1] = "." THEN <<[t |-> "any"]>> \o RegexTokens(Drop(rs, 1))
    ELSE <<[t |-> "lit", c |-> rs[1]]>> \o RegexTokens(Drop(rs, 1))

NoMatch == [ok |-> FALSE]

\* The length of the longest prefix of s without a '/'.
RECURSIVE SegRun(_)
SegRun(s) == IF s = <<>> \/ s[1] = "/" THEN 0 ELSE 1 + SegRun(Tail(s))

\* std::regex_match of the tokens toks against the whole of s, where pos is
\* the number of characters already consumed: the captures of the match the
\* backtracking matcher finds first (greedy groups take the longest run that
\* lets the rest match), or NoMatch.
RECURSIVE TokensMatch(_, _, _)
TokensMatch(toks, s, pos) ==
    IF toks = <<>>
    THEN IF s = <<>> THEN [ok |-> TRUE, caps |-> <<>>] ELSE NoMatch
    ELSE LET tk == Head(toks)
             rest == Tail(toks)
         IN  CASE tk.t = "bol" ->
                    IF pos = 0 THEN TokensMatch(rest, s, pos) ELSE NoMatch
               [] tk.t = "eol" ->
                    IF s = <<>> THEN TokensMatch(rest, s, pos) ELSE NoMatch
               [] tk.t = "lit" ->
                    IF s # <<>> /\ s[1] = tk.c
                    THEN TokensMatch(rest, Tail(s), pos + 1) ELSE NoMatch
               [] tk.t = "any" ->
                    IF s # <<>> THEN TokensMatch(rest, Tail(s), pos + 1) ELSE NoMatch
               [] tk.t \in {"seg", "rest"} ->
                    LET lo == IF tk.t = "seg" THEN 1 ELSE 0
                        hi == IF tk.t = "seg" THEN SegRun(s) ELSE Len(s)
                        good == {k \in lo..hi :
                                   TokensMatch(rest, Drop(s, k), pos + k).ok}
                    IN  IF good = {} THEN NoMatch
                        ELSE LET k == CHOOSE x \in good : \A y \in good : y <= x
                                 m == TokensMatch(rest, Drop(s, k), pos + k)
                             IN  [ok |-> TRUE, caps |-> <<Take(s, k)>> \o m.caps]

\* std::regex_match(path_str, matches, regex_): a default-constructed regex
\* matches nothing.
RegexMatch(regex, path) ==
    IF regex = <<>> THEN NoMatch ELSE TokensMatch(RegexTokens(regex), path, 0)

\* The loop of match() that fills params: params[param_names_[i-1]] =
\* matches[i] for i from 1, a later capture overwriting an earlier one of the
\* same name.
RECURSIVE FillParams(_, _, _, _)
FillParams(names, caps, i, params) ==
    IF i > Len(caps) THEN params
    ELSE IF i <= Len(names)
    THEN FillParams(names, caps, i + 1,
                    [n \in DOMAIN params \cup {names[i]} |->
                        IF n = names[i] THEN caps[i] ELSE params[n]])
    ELSE FillParams(names, caps, i + 1, params)

NoParams == [n \in {} |-> <<>>]

\* PathPattern::match(path): the parameter mapping, or std::nullopt.
PatternMatch(p, path) ==
    LET m == RegexMatch(p.regex_, path)
    IN  IF m.ok
        THEN [matched |-> TRUE,
              params |-> FillParams(p.param_names_, m.caps, 1, NoParams)]
        ELSE [matched |-> FALSE]

Nullopt == [matched |-> FALSE]

\* The mapping {name: value}.
OneParam(name, value) == [n \in {name} |-> value]

-----------------------------------------------------------------------------
(* Operations on a PathPattern.                                            *)

InitMatcher ==
    /\ pp = PathPatternDefault
    /\ mpath = NoCall
    /\ mres = Nullopt

\* PathPattern p(pattern): the object is constructed once.
Construct ==
    /\ pp = PathPatternDefault
    /\ mpath = NoCall
    /\ \E pattern \in Patterns :
          pp' = PathPatternCtor(pattern)
    /\ UNCHANGED <<mpath, mres, routerVars, composeVars, parserVars, asyncVars>>

\* p.match(path).  match is const and reads only the object and its
\* argument, so a behaviour follows one call per object: a later call on the
\* same object returns what it would return as the first.
Match ==
    /\ mpath = NoCall
    /\ \E path \in Paths :
          /\ mpath' = path
          /\ mres' = PatternMatch(pp, path)
    /\ UNCHANGED <<pp, routerVars, composeVars, parserVars, asyncVars>>

-----------------------------------------------------------------------------
(* router/router.hpp: Router.                                              *)

\* enum class Method, by declaration order (parser/types.hpp).
MethodOrd(m) == CASE m = "Get" -> 0 [] m = "Post" -> 1 [] m = "Head" -> 2
                  [] m = "Put" -> 3 [] m = "Delete" -> 4

\* The character codes std::string's comparison orders by.
Code(c) ==
    CASE c = "*" -> 42 [] c = "+" -> 43 [] c = "." -> 46 [] c = "/" -> 47
      [] c = "2" -> 50 [] c = "4" -> 52 [] c = ":" -> 58 [] c = "?" -> 63
      [] c = "a" -> 97 [] c = "b" -> 98 [] c = "c" -> 99 [] c = "d" -> 100
      [] c = "e" -> 101 [] c = "h" -> 104 [] c = "i" -> 105 [] c = "p" -> 112
      [] c = "r" -> 114 [] c = "s" -> 115 [] c = "t" -> 116 [] c = "u" -> 117
      [] c = "x" -> 120

\* std::string operator<: lexicographic by character code, a proper prefix
\* first.
RECURSIVE StrLess(_, _)
StrLess(a, b) ==
    IF b = <<>> THEN FALSE
    ELSE IF a = <<>> THEN TRUE
    ELSE IF a[1] # b[1] THEN Code(a[1]) < Code(b[1])
    ELSE StrLess(Tail(a), Tail(b))

\* std::pair<Method, std::string> operator<, the order of RouteTable's keys.
KeyLess(k1, k2) ==
    \/ MethodOrd(k1[1]) < MethodOrd(k2[1])
    \/ k1[1] = k2[1] /\ StrLess(k1[2], k2[2])

\* MapPut with the entries kept in the order they were registered.
MapPutAppended(table, key, value) ==
    LET e == [key |-> key, value |-> value]
    IN  IF \E i \in 1..Len(table) : table[i].key = key
        THEN [i \in 1..Len(table) |->
                 IF table[i].key = key THEN e ELSE table[i]]
        ELSE Append(table, e)

\* MapPut with insert() in place of operator[]: the entry of an equal key
\* is kept as it was.
MapPutKeepOld(table, key, value) ==
    LET e == [key |-> key, value |-> value]
    IN  IF \E i \in 1..Len(table) : table[i].key = key
        THEN table
        ELSE LET below == SelectSeq(table, LAMBDA x : KeyLess(x.key, key))
                 above == SelectSeq(table, LAMBDA x : KeyLess(key, x.key))
             IN  below \o <<e>> \o above

\* (*new_routes)[key] = value on a std::map kept as the list of its entries in
\* key order: the entry of an equal key is overwritten, a new key is inserted
\* at its place in the order.
MapPut(table, key, value) ==
    LET e == [key |-> key, value |-> value]
    IN  IF \E i \in 1..Len(table) : table[i].key = key
        THEN [i \in 1..Len(table) |->
                 IF table[i].key = key THEN e ELSE table[i]]
        ELSE LET below == SelectSeq(table, LAMBDA x : KeyLess(x.key, key))
                 above == SelectSeq(table, LAMBDA x : KeyLess(key, x.key))
             IN  below \o <<e>> \o above

\* The table route() builds: a copy of *routes_ with the entry put in.
RouteTableOf(table, method, pattern, handler) ==
    MapPut(table, <<method, pattern>>,
           [pattern |-> PathPatternCtor(pattern), handler |-> handler])

\* RoutersAfterRoute with the new router sharing the table of the old one
\* instead of owning a copy of it.
RoutersAfterRouteShared(rs, r, method, pattern, handler) ==
    LET t == MapPut(rs[r], <<method, pattern>>,
                    [pattern |-> PathPatternCtor(pattern), handler |-> handler])
    IN  Append([rs EXCEPT ![r] = t], t)

\* The Router values after r.route(method, pattern, handler) on the r-th one:
\* the new router owns the new table and every earlier router keeps its own.
RoutersAfterRoute(rs, r, method, pattern, handler) ==
    Append(rs, RouteTableOf(rs[r], method, pattern, handler))

NotFound == [found |-> FALSE]

\* Router::find's loop over *routes_ from entry i on.
RECURSIVE FindFrom(_, _, _)
FindFrom(table, req, i) ==
    IF i > Len(table) THEN NotFound
    ELSE IF table[i].key[1] # req.method THEN FindFrom(table, req, i + 1)
    ELSE LET params == PatternMatch(table[i].value.pattern, req.uri)
         IN  IF params.matched
             THEN [found |-> TRUE, handler |-> table[i].value.handler,
                   params |-> params.params]
             ELSE FindFrom(table, req, i + 1)

\* Router::find(req)
Find(table, req) == FindFrom(table, req, 1)

\* router/types.hpp: HttpResponse.  headers is a mapping from header name to
\* value and body a list of text pieces.
NoHeaders == [k \in {} |-> ""]

Response(code, text) ==
    [status_code |-> code, status_text |-> text, headers |-> NoHeaders,
     body |-> <<>>]

\* headers[key] = value: an existing value is overwritten.
SetHeader(headers, key, value) ==
    [k \in DOMAIN headers \cup {key} |-> IF k = key THEN value ELSE headers[k]]

\* headers.insert({key, value}): an existing value is kept.
InsertHeader(headers, key, value) ==
    [k \in DOMAIN headers \cup {key} |->
        IF k \in DOMAIN headers THEN headers[k] ELSE value]

\* HttpResponse::with_header
WithHeader(resp, key, value) ==
    [resp EXCEPT !.headers = InsertHeader(@, key, value)]

\* HttpResponse::with_text
WithText(resp, text) ==
    [resp EXCEPT !.body = text,
                 !.headers = SetHeader(@, "Content-Type", "text/plain")]

\* HttpResponse::with_html
WithHtml(resp, html) ==
    [resp EXCEPT !.body = html,
                 !.headers = SetHeader(@, "Content-Type", "text/html")]

\* What a handler does when invoked: it returns a response, throws an
\* exception derived from std::exception, or throws a value of another type.
\* hCors answers with a cross-origin header of its own.
HandlerRun(h, req) ==
    CASE h = "hThrow"    -> [kind |-> "throw_std", what |-> "boom"]
      [] h = "hThrowInt" -> [kind |-> "throw_other"]
      [] h = "hCors" ->
           [kind |-> "return",
            response |-> WithHeader(WithHtml(Response(200, "OK"), <<"page of ", h>>),
                                    "Access-Control-Allow-Origin", "example.org")]
      [] OTHER ->
           [kind |-> "return",
            response |-> WithHtml(Response(200, "OK"), <<"page of ", h>>)]

\* HttpResponse::not_found().with_text("Route not found")
NotFoundResponse == WithText(Response(404, "Not Found"), <<"Route not found">>)

\* HttpResponse::internal_server_error().with_text("Handler error: " + what)
HandlerErrorResponse(what) ==
    WithText(Response(500, "Internal Server Error"), <<"Handler error: ", what>>)

\* HandleOutcome without the `if (!match)` test: the first handler of the
\* table stands in for a missing match.
HandleOutcomeUnchecked(table, req) ==
    LET match == Find(table, req)
        h == IF match.found THEN match.handler
             ELSE IF table # <<>> THEN table[1].value.handler ELSE "h1"
        run == HandlerRun(h, req)
    IN  CASE run.kind = "return" ->
               [invoked |-> <<h>>, returned |-> TRUE, response |-> run.response]
          [] run.kind = "throw_std" ->
               [invoked |-> <<h>>, returned |-> TRUE,
                response |-> HandlerErrorResponse(run.what)]
          [] run.kind = "throw_other" ->
               [invoked |-> <<h>>, returned |-> FALSE]

\* Router::handle(req): what the call does, as the handlers it invokes and
\* either the response it returns or the exception that leaves it.  The catch
\* clause is for const std::exception& only.
HandleOutcome(table, req) ==
    LET match == Find(table, req)
    IN  IF ~match.found
        THEN [invoked |-> <<>>, returned |-> TRUE, response |-> NotFoundResponse]
        ELSE LET run == HandlerRun(match.handler, req)
             IN  CASE run.kind = "return" ->
                        [invoked |-> <<match.handler>>, returned |-> TRUE,
                         response |-> run.response]
                   [] run.kind = "throw_std" ->
                        [invoked |-> <<match.handler>>, returned |-> TRUE,
                         response |-> HandlerErrorResponse(run.what)]
                   [] run.kind = "throw_other" ->
                        [invoked |-> <<match.handler>>, returned |-> FALSE]

Methods        == {"Get", "Post"}
RouterPatterns == {<<"/", "a">>, <<"/", "b">>, <<"/", "*">>}
Handlers       == {"h1", "hThrow", "hThrowInt"}
Uris           == {<<"/", "a">>, <<"/", "b">>, <<"/", "c">>, <<"b">>}
Requests       == [method : Methods, uri : Uris]

\* r.route(method, pattern, handler) on any router built so far; get, post,
\* put and delete_ are route with the method fixed.  A behaviour builds its
\* routers first and queries them afterwards: find and handle are const and
\* read only the table and the request, so a query changes nothing a later
\* registration could see.
Route ==
    /\ Len(routers) < MaxRouters
    /\ rcall.op = "none"
    /\ \E r \in 1..Len(routers), method \in Methods,
          pattern \in RouterPatterns, handler \in Handlers :
          routers' = RoutersAfterRoute(routers, r, method, pattern, handler)
    /\ UNCHANGED <<rcall, invoked, matcherVars, composeVars, parserVars, asyncVars>>

\* r.find(req) on any router built so far.
FindCall ==
    /\ rcall.op = "none"
    /\ \E r \in 1..Len(routers), req \in Requests :
          rcall' = [op |-> "find", router |-> r, req |-> req,
                    match |-> Find(routers[r], req)]
    /\ UNCHANGED <<routers, invoked, matcherVars, composeVars, parserVars, asyncVars>>

\* r.handle(req) on any router built so far.
HandleCall ==
    /\ rcall.op = "none"
    /\ \E r \in 1..Len(routers), req \in Requests :
          LET out == HandleOutcome(routers[r], req)
          IN  /\ rcall' = [op |-> "handle", router |-> r, req |-> req,
                           out |-> out]
              /\ invoked' = out.invoked
    /\ UNCHANGED <<routers, matcherVars, composeVars, parserVars, asyncVars>>

-----------------------------------------------------------------------------
(* router/middleware.hpp: the built-in middlewares and compose.            *)
(*                                                                         *)
(* A Handler is a term: the terminal handler, or the lambda a middleware   *)
(* returned, which holds the handler it wraps as `next`.  id is the        *)
(* position the middleware had in the list given to compose; it stands for *)
(* the probe by which a test tells the layers apart.                       *)

FinalHandler(h) == [kind |-> "final", h |-> h]

\* m(next): the handler the middleware m builds around next.
Wrap(m, next) == [kind |-> m.kind, id |-> m.id, accepts |-> m.accepts, next |-> next]

\* std::accumulate over a range of middlewares that ends with index i, in
\* the order rbegin..rend walks it: from the last middleware to the first.
RECURSIVE Accumulate(_, _, _)
Accumulate(middlewares, i, h) ==
    IF i = 0 THEN h
    ELSE Accumulate(middlewares, i - 1, Wrap(middlewares[i], h))

\* Accumulate walking begin..end instead: from the first middleware to the
\* last.
RECURSIVE AccumulateForward(_, _, _)
AccumulateForward(middlewares, i, h) ==
    IF i > Len(middlewares) THEN h
    ELSE AccumulateForward(middlewares, i + 1, Wrap(middlewares[i], h))

\* ComposeHandler folding from the front of the list.
ComposeHandlerForward(middlewares, final_handler) ==
    AccumulateForward(middlewares, 1, final_handler)

\* compose(middlewares, final_handler)
ComposeHandler(middlewares, final_handler) ==
    Accumulate(middlewares, Len(middlewares), final_handler)

\* AuthCheck for a require_auth that tests check(req) instead of
\* !check(req).
AuthCheckInverted(h, req) == req.token \notin h.accepts

\* The check of a require_auth middleware: the request's token is one the
\* middleware accepts.
AuthCheck(h, req) == req.token \in h.accepts

\* HttpResponse{401, "Unauthorized", {}, {}}.with_text("Authentication required")
UnauthorizedResponse ==
    WithText(Response(401, "Unauthorized"), <<"Authentication required">>)

\* Rejects for a require_auth whose 401 branch does not return: every layer
\* goes on to call next(req).
NeverRejects(h, req) == FALSE

\* Does the lambda of handler term h return without calling next(req)?  Only
\* require_auth does, when its check fails.
Rejects(h, req) == h.kind = "require_auth" /\ ~AuthCheck(h, req)

\* What the lambda of handler term h does with the response next(req)
\* returned: cors adds its two headers, logging and require_auth return it as
\* it is.
PostLogic(h, response) ==
    IF h.kind = "cors"
    THEN WithHeader(WithHeader(response, "Access-Control-Allow-Origin", "*"),
                    "Access-Control-Allow-Methods", "GET, POST, PUT, DELETE")
    ELSE response

Tokens          == {"none", "user", "admin"}
AcceptSets      == {{"admin"}, {"user", "admin"}}
FinalHandlers   == {"h1", "hCors"}

\* The middlewares a list may hold at position i.
MiddlewaresAt(i) ==
    {[kind |-> k, id |-> i, accepts |-> {}] : k \in {"logging", "cors"}}
        \cup {[kind |-> "require_auth", id |-> i, accepts |-> a] : a \in AcceptSets}

\* The middleware lists of length n.
MiddlewareLists(n) == {l \in [1..n -> UNION {MiddlewaresAt(i) : i \in 1..n}] :
                          \A i \in 1..n : l[i] \in MiddlewaresAt(i)}

\* auto h = compose(middlewares, final_handler);
Compose ==
    /\ ~chain.built
    /\ \E n \in 0..MaxMw : \E mws \in MiddlewareLists(n), f \in FinalHandlers :
          chain' = [built |-> TRUE, middlewares |-> mws, final |-> f,
                    handler |-> ComposeHandler(mws, FinalHandler(f))]
    /\ UNCHANGED <<creq, stack, ret, log, matcherVars, routerVars, parserVars, asyncVars>>

\* h(req): the composed handler is called; its outermost lambda is entered.
Call ==
    /\ chain.built
    /\ ~creq.active
    /\ \E token \in Tokens :
          creq' = [active |-> TRUE, req |-> [token |-> token]]
    /\ stack' = <<chain.handler>>
    /\ UNCHANGED <<chain, ret, log, matcherVars, routerVars, parserVars, asyncVars>>

Top == stack[Len(stack)]
Pop == SubSeq(stack, 1, Len(stack) - 1)

\* The lambda on top of the stack runs up to its call of next(req), or to
\* its return if it makes none.  A middleware's lambda logs its entry, then
\* either returns the 401 response or calls next; the terminal handler runs
\* and returns.
Enter ==
    /\ creq.active
    /\ stack # <<>>
    /\ ~ret.set
    /\ Top.kind # "entered"
    /\ IF Top.kind = "final"
       THEN /\ log' = Append(log, <<"H", 0>>)
            /\ ret' = [set |-> TRUE, response |-> HandlerRun(Top.h, creq.req).response]
            /\ stack' = Pop
       ELSE IF Rejects(Top, creq.req)
       THEN /\ log' = log \o << <<"pre", Top.id>>, <<"reject", Top.id>> >>
            /\ ret' = [set |-> TRUE, response |-> UnauthorizedResponse]
            /\ stack' = Pop
       ELSE /\ log' = Append(log, <<"pre", Top.id>>)
            /\ ret' = ret
            /\ stack' = Pop \o <<[kind |-> "entered", lambda |-> Top], Top.next>>
    /\ UNCHANGED <<chain, creq, matcherVars, routerVars, parserVars, asyncVars>>

\* next(req) has returned to the lambda on top of the stack: the lambda
\* runs its post-logic and returns.
Leave ==
    /\ creq.active
    /\ stack # <<>>
    /\ ret.set
    /\ Top.kind = "entered"
    /\ log' = Append(log, <<"post", Top.lambda.id>>)
    /\ ret' = [set |-> TRUE, response |-> PostLogic(Top.lambda, ret.response)]
    /\ stack' = Pop
    /\ UNCHANGED <<chain, creq, matcherVars, routerVars, parserVars, asyncVars>>

-----------------------------------------------------------------------------
(* Initial states of the router and of the composer (their operations      *)
(* follow below).                                                          *)

\* Router(): one router, with an empty route table.
InitRouter ==
    /\ routers = << <<>> >>
    /\ rcall = [op |-> "none"]
    /\ invoked = <<>>

\* No handler composed and none running.
InitCompose ==
    /\ chain = [built |-> FALSE]
    /\ creq = [active |-> FALSE]
    /\ stack = <<>>
    /\ ret = [set |-> FALSE]
    /\ log = <<>>

\* No parser has been called.
InitParser ==
    /\ pcall = [fn |-> "none"]
    /\ ccall = [fn |-> "none"]

\* No router is shared between threads yet.
InitShared ==
    /\ heap = <<>>
    /\ shared = [set |-> FALSE]
    /\ threads = <<>>

\* No channel has been constructed.
InitChannel ==
    /\ chan = [made |-> FALSE]
    /\ cthreads = <<>>

\* No thread pool has been constructed.
InitPool ==
    /\ pool = [made |-> FALSE]
    /\ pthreads = <<>>

\* No asynchronous sink has been constructed.
InitSink ==
    /\ sink = [made |-> FALSE]
    /\ sthreads = <<>>

InitAsync == InitShared /\ InitChannel /\ InitPool /\ InitSink

Init == InitMatcher /\ InitRouter /\ InitCompose /\ InitParser /\ InitAsync

-----------------------------------------------------------------------------
(* The path matcher on its own: patterns are compiled and paths matched.   *)

NextMatcher == Construct \/ Match

SpecMatcher == Init /\ [][NextMatcher]_vars

\* s split at every '/': the segments of a pattern or of a path.
RECURSIVE Split(_)
Split(s) ==
    LET n == SegRun(s)
    IN  IF n = Len(s) THEN <<s>>
        ELSE <<Take(s, n)>> \o Split(Drop(s, n + 1))

Chars(s) == {s[i] : i \in 1..Len(s)}

Slashes(s) == Cardinality({i \in 1..Len(s) : s[i] = "/"})

\* A match() call on a pattern built by PathPattern(pattern) has returned.
Called == mpath # NoCall /\ pp.regex_ # <<>>

\* A segment of the form ':name' with a non-empty name.
IsParamSeg(g) == Len(g) >= 2 /\ g[1] = ":" /\ Chars(Tail(g)) \cap {":", "*"} = {}

IsLiteralSeg(g) == Chars(g) \cap {":", "*"} = {}

\* A pattern made of literal segments and ':name' segments, with at least one
\* parameter and no parameter name used twice.
IsParamPattern(pattern) ==
    LET segs == Split(pattern)
        ps   == {i \in 1..Len(segs) : IsParamSeg(segs[i])}
    IN  /\ \A i \in 1..Len(segs) : IsParamSeg(segs[i]) \/ IsLiteralSeg(segs[i])
        /\ ps # {}
        /\ \A i, j \in ps : segs[i] = segs[j] => i = j

\* path has the segments of pattern: equal literals, and a non-empty string
\* in each parameter position.
Conforms(pattern, path) ==
    LET segs == Split(pattern)
        got  == Split(path)
    IN  /\ Len(got) = Len(segs)
        /\ \A i \in 1..Len(segs) :
              IF IsParamSeg(segs[i]) THEN got[i] # <<>> ELSE got[i] = segs[i]

\* The mapping from each parameter name of pattern to the path's segment in
\* its position.
ExpectedParams(pattern, path) ==
    LET segs == Split(pattern)
        got  == Split(path)
        ps   == {i \in 1..Len(segs) : IsParamSeg(segs[i])}
    IN  [n \in {Tail(segs[i]) : i \in ps} |->
            got[CHOOSE i \in ps : Tail(segs[i]) = n]]

\* C7: a ':name' segment captures one path segment under its full name: on a
\* pattern of literal and ':name' segments and a path that has the same
\* segments, match returns the mapping from each name to the path's segment.
C7_ParamCapturesSegment ==
    (Called /\ IsParamPattern(pp.pattern_) /\ Conforms(pp.pattern_, mpath))
        => /\ mres.matched
           /\ mres.params = ExpectedParams(pp.pattern_, mpath)

\* The index of the first '*' of s, or 0.
RECURSIVE StarAt(_, _)
StarAt(s, i) ==
    IF i > Len(s) THEN 0 ELSE IF s[i] = "*" THEN i ELSE StarAt(s, i + 1)

\* A pattern whose last segment starts with '*' and names the wildcard, after
\* literal segments only: prefix '/' '*' name.
IsWildcardPattern(pattern) ==
    LET k == StarAt(pattern, 1)
    IN  /\ k > 0
        /\ k < Len(pattern)
        /\ k = 1 \/ pattern[k - 1] = "/"
        /\ Chars(Take(pattern, k - 1)) \cap {":", "*"} = {}
        /\ Chars(Drop(pattern, k)) \cap {":", "*", "/"} = {}

\* C8: a '*name' segment captures the whole remainder of the path, '/'
\* included, and binds it under the name written after the '*'.
C8_WildcardCapturesRemainder ==
    LET k == StarAt(pp.pattern_, 1)
    IN  (Called /\ IsWildcardPattern(pp.pattern_)
            /\ StartsWith(mpath, Take(pp.pattern_, k - 1))
            /\ Len(mpath) >= k)
          => /\ mres.matched
             /\ mres.params = OneParam(Drop(pp.pattern_, k), Drop(mpath, k - 1))

\* toks, with its capture groups bound to caps in order, spells exactly s.
RECURSIVE Covers(_, _, _)
Covers(toks, caps, s) ==
    IF toks = <<>> THEN s = <<>> /\ caps = <<>>
    ELSE LET tk == Head(toks)
         IN  CASE tk.t \in {"bol", "eol"} -> Covers(Tail(toks), caps, s)
               [] tk.t = "lit" ->
                    s # <<>> /\ s[1] = tk.c /\ Covers(Tail(toks), caps, Tail(s))
               [] tk.t = "any" ->
                    s # <<>> /\ Covers(Tail(toks), caps, Tail(s))
               [] tk.t \in {"seg", "rest"} ->
                    /\ caps # <<>>
                    /\ StartsWith(s, Head(caps))
                    /\ Covers(Tail(toks), Tail(caps), Drop(s, Len(Head(caps))))

\* The capture groups of a token list, in order.
Groups(toks) == SelectSeq(toks, LAMBDA tk : tk.t \in {"seg", "rest"})

\* C9: match never partially matches: when it returns a mapping the compiled
\* pattern spells the whole path from its first to its last byte, a ':name'
\* capture is non-empty and holds no '/', and a pattern without a wildcard
\* matches no path with more or fewer segments than it has
\* ("/users/:id" does not match "/users/42/x").
C9_NoPartialMatch ==
    /\ (Called /\ mres.matched) =>
          LET toks == RegexTokens(pp.regex_)
              m    == RegexMatch(pp.regex_, mpath)
              grp  == Groups(toks)
          IN  /\ m.ok
              /\ Covers(toks, m.caps, mpath)
              /\ Len(m.caps) = Len(grp)
              /\ \A i \in 1..Len(grp) :
                    grp[i].t = "seg" => m.caps[i] # <<>> /\ "/" \notin Chars(m.caps[i])
              /\ "*" \notin Chars(pp.pattern_) => Slashes(mpath) = Slashes(pp.pattern_)
    /\ (pp.pattern_ = PatUsersId /\ mpath = PathUsers42x) => ~mres.matched

\* A pattern with a parameter and no wildcard has matched a path.
C9_Witness ==
    /\ Called
    /\ mres.matched
    /\ ":" \in Chars(pp.pattern_)
    /\ "*" \notin Chars(pp.pattern_)
    /\ DOMAIN mres.params # {}

\* C10: a pattern without ':' and '*' matches exactly the path equal to it,
\* with an empty mapping.
C10_StaticPatternMatchesItself ==
    (Called /\ Chars(pp.pattern_) \cap {":", "*"} = {})
        => /\ mres.matched <=> (mpath = pp.pattern_)
           /\ mres.matched => mres.params = NoParams

-----------------------------------------------------------------------------
(* The router on its own: routers are derived from one another and asked   *)
(* to find and to handle requests.                                         *)

NextRouter == Route \/ FindCall \/ HandleCall

SpecRouter == Init /\ [][NextRouter]_vars


\* The entries of a table that a request matches: equal method, and a pattern
\* that matches the URI.
Candidates(table, req) ==
    {i \in 1..Len(table) :
        /\ table[i].key[1] = req.method
        /\ PatternMatch(table[i].value.pattern, req.uri).matched}

\* C1: registering a route never changes an existing Router value: every
\* find on every router built before the call returns after it what it
\* returned before it (a step that builds no router changes none).
C1_RouteLeavesOldRoutersAlone ==
    [][routers' # routers =>
          \A i \in 1..Len(routers) : \A req \in Requests :
              Find(routers'[i], req) = Find(routers[i], req)]_vars

\* Two routers, the second built from the first by one more route: a request
\* the first cannot find and the second can, and one both find.
C1_Witness ==
    /\ Len(routers) = 3
    /\ Len(routers[2]) = 1
    /\ Len(routers[3]) = 2
    /\ \E ra, rb \in Requests :
          /\ Find(routers[2], ra).found
          /\ Find(routers[3], ra).found
          /\ ~Find(routers[2], rb).found
          /\ Find(routers[3], rb).found

\* C2: find returns the first matching entry in key order: it finds a match
\* iff some entry of the request's method matches the URI, and then returns
\* the handler and the parameters of the matching entry with the
\* lexicographically smallest pattern string.
C2_FindReturnsSmallestPattern ==
    rcall.op = "find" =>
        LET table == routers[rcall.router]
            cands == Candidates(table, rcall.req)
        IN  /\ rcall.match.found <=> cands # {}
            /\ cands # {} =>
                  LET best == CHOOSE i \in cands : \A j \in cands \ {i} :
                                  StrLess(table[i].key[2], table[j].key[2])
                  IN  /\ rcall.match.handler = table[best].value.handler
                      /\ rcall.match.params =
                            PatternMatch(table[best].value.pattern,
                                         rcall.req.uri).params

\* find has chosen between two matching entries that hold different handlers.
C2_Witness ==
    /\ rcall.op = "find"
    /\ rcall.match.found
    /\ \E i, j \in Candidates(routers[rcall.router], rcall.req) :
          routers[rcall.router][i].value.handler
              # routers[rcall.router][j].value.handler

\* C3: handle on a request that matches no route returns a 404 response with
\* a plain-text body and invokes no handler.
C3_NoRouteGives404 ==
    (rcall.op = "handle" /\ Candidates(routers[rcall.router], rcall.req) = {})
        => /\ rcall.out.returned
           /\ rcall.out.response.status_code = 404
           /\ rcall.out.response.headers["Content-Type"] = "text/plain"
           /\ rcall.out.response.body # <<>>
           /\ invoked = <<>>

\* handle has run on a router that holds routes, none of which matches.
C3_Witness ==
    /\ rcall.op = "handle"
    /\ routers[rcall.router] # <<>>
    /\ Candidates(routers[rcall.router], rcall.req) = {}
    /\ rcall.out.response.status_code = 404

\* C4: handle turns any fault the matched handler raises into a returned 500
\* response whose body carries the fault's message; no fault leaves handle()
\* and the handler is invoked once.
C4_HandlerFaultBecomes500 ==
    rcall.op = "handle" =>
        LET match == Find(routers[rcall.router], rcall.req)
        IN  (match.found /\ HandlerRun(match.handler, rcall.req).kind # "return")
              => /\ rcall.out.returned
                 /\ rcall.out.response.status_code = 500
                 /\ HandlerRun(match.handler, rcall.req).kind = "throw_std" =>
                       \E k \in 1..Len(rcall.out.response.body) :
                           rcall.out.response.body[k]
                               = HandlerRun(match.handler, rcall.req).what
                 /\ invoked = <<match.handler>>

-----------------------------------------------------------------------------
(* The composer on its own: a handler is composed and called once.         *)

NextCompose == Compose \/ Call \/ Enter \/ Leave

SpecCompose == Init /\ [][NextCompose]_vars

\* The call of the composed handler has returned.
Returned == creq.active /\ stack = <<>> /\ ret.set


\* The events of layers 1..n being entered in list order, and of layers n..1
\* returning.
PreEvents(n)  == [k \in 1..n |-> <<"pre", k>>]
PostEvents(n) == [k \in 1..n |-> <<"post", n - k + 1>>]

\* The positions of the list whose middleware turns the request away.
Rejecting ==
    {i \in 1..Len(chain.middlewares) :
        /\ chain.middlewares[i].kind = "require_auth"
        /\ creq.req.token \notin chain.middlewares[i].accepts}

\* C5: compose([M1..Mn], H) runs M1's pre-logic, ..., Mn's pre-logic, H,
\* Mn's post-logic, ..., M1's post-logic in exactly that order, each once,
\* when no middleware short-circuits.
C5_ComposeOrder ==
    (Returned /\ Rejecting = {}) =>
        LET n == Len(chain.middlewares)
        IN  log = PreEvents(n) \o << <<"H", 0>> >> \o PostEvents(n)

\* A composed handler of at least two middlewares has run to its end with
\* none of them short-circuiting.
C5_Witness ==
    /\ Returned
    /\ Rejecting = {}
    /\ Len(chain.middlewares) >= 2
    /\ \E k \in 1..Len(log) : log[k] = <<"H", 0>>

\* C6: when middleware Mi returns a response without invoking its inner
\* handler, none of Mi+1..Mn nor H is invoked, and the response passes back
\* out through the post-logic of Mi-1..M1 in that order.
C6_ShortCircuit ==
    (Returned /\ Rejecting # {}) =>
        LET i == CHOOSE x \in Rejecting : \A y \in Rejecting : x <= y
        IN  /\ log = PreEvents(i) \o << <<"reject", i>> >> \o PostEvents(i - 1)
            /\ ret.response.status_code = 401

\* A middleware in the middle of the list has short-circuited: layers were
\* entered before it and layers after it were skipped.
C6_Witness ==
    /\ Returned
    /\ \E i \in Rejecting : 1 < i /\ i < Len(chain.middlewares)
                              /\ \A j \in Rejecting : i <= j

-----------------------------------------------------------------------------
(* The parser combinators (parser/combinaor.hpp).                          *)
(*                                                                         *)
(* A Parser<T> is a value built by the combinator functions; here it is a  *)
(* term [op, name, s, ps] naming the function that built it and its        *)
(* arguments: a predicate or mapping name, a string argument, and the      *)
(* parsers it was built from.  Run(p, input) is the call p(input).         *)

\* std::isspace in the "C" locale, over the characters of the model.
SpaceChars == {" ", "\t", "\n", "\f", "\r"}
IsSpace(c) == c \in SpaceChars

\* std::isdigit.
IsDigit(c) == c \in {"0", "1", "2", "3", "4", "5", "6", "7", "8", "9"}

\* The predicates handed to satisfy().
Predicate(name, c) ==
    CASE name = "isdigit" -> IsDigit(c)
      [] name = "isspace" -> IsSpace(c)
      [] name = "any"     -> TRUE
      [] OTHER            -> FALSE

one_char        == [op |-> "one_char", name |-> "", s |-> <<>>, ps |-> <<>>]
satisfy(pred)   == [op |-> "satisfy", name |-> pred, s |-> <<>>, ps |-> <<>>]
string(target)  == [op |-> "string", name |-> "", s |-> target, ps |-> <<>>]
sequence(pa, pb) == [op |-> "sequence", name |-> "", s |-> <<>>, ps |-> <<pa, pb>>]
choice(p1, p2)  == [op |-> "choice", name |-> "", s |-> <<>>, ps |-> <<p1, p2>>]
choiceOf(parsers) == [op |-> "choiceOf", name |-> "", s |-> <<>>, ps |-> parsers]
map(p, f)       == [op |-> "map", name |-> f, s |-> <<>>, ps |-> <<p>>]
many(p)         == [op |-> "many", name |-> "", s |-> <<>>, ps |-> <<p>>]
many1(p)        == [op |-> "many1", name |-> "", s |-> <<>>, ps |-> <<p>>]
spaces          == [op |-> "spaces", name |-> "", s |-> <<>>, ps |-> <<>>]
take_until(delimiter) ==
    [op |-> "take_until", name |-> "", s |-> <<delimiter>>, ps |-> <<>>]

\* What a call of a parser comes to: a pair (value, rest), an error, or no
\* return at all.  calls lists the applications of the parsers it was built
\* from that the call made, in order.
Success(value, rest, calls) ==
    [ok |-> TRUE, returns |-> TRUE, value |-> <<value>>, rest |-> rest,
     error |-> "none", calls |-> calls]
Failure(error, calls) ==
    [ok |-> FALSE, returns |-> TRUE, value |-> <<>>, rest |-> <<>>,
     error |-> error, calls |-> calls]
NoReturn(calls) ==
    [ok |-> FALSE, returns |-> FALSE, value |-> <<>>, rest |-> <<>>,
     error |-> "none", calls |-> calls]

Applied(p, input) == [p |-> p, input |-> input]

\* std::monostate{}.
Monostate == "monostate"

\* The mapping functions handed to map() are constant lambdas,
\* [](auto) { return X; }: f names the X it returns.
ApplyFn(f, v) == f

\* Index of the first element of s at or after i that satisfies
\* s[j] \in C, or Len(s) + 1: std::find_if / std::string_view::find.
RECURSIVE FindIn(_, _, _)
FindIn(s, i, C) ==
    IF i > Len(s) THEN Len(s) + 1
    ELSE IF s[i] \in C THEN i
    ELSE FindIn(s, i + 1, C)

\* Index of the first element of s at or after i that is not in C, or
\* Len(s) + 1: std::find_if_not.
RECURSIVE FindNotIn(_, _, _)
FindNotIn(s, i, C) ==
    IF i > Len(s) THEN Len(s) + 1
    ELSE IF s[i] \notin C THEN i
    ELSE FindNotIn(s, i + 1, C)

\* p(input) for a parser p built by the combinator functions.
RECURSIVE Run(_, _)
RECURSIVE ChoiceLoop(_, _, _, _)
RECURSIVE ManyLoop(_, _, _, _)

\* one_char(): the first character, or IncompleteRequest on empty input.
RunOneChar(input) ==
    IF input = <<>> THEN Failure("IncompleteRequest", <<>>)
    ELSE Success(input[1], Drop(input, 1), <<>>)

\* satisfy(predicate): one_char, then the predicate on its character.
RunSatisfy(pred, input) ==
    LET r == RunOneChar(input) IN
    IF ~r.ok THEN r
    ELSE IF Predicate(pred, r.value[1]) THEN r
    ELSE Failure("MalformedRequest", <<>>)

\* string(target): input.starts_with(target).
RunString(target, input) ==
    IF StartsWith(input, target)
    THEN Success(target, Drop(input, Len(target)), <<>>)
    ELSE Failure("MalformedRequest", <<>>)

\* sequence(pa, pb) running pb on the input pa was given.
RunSequenceSameInput(pa, pb, input) ==
    LET ra == Run(pa, input) IN
    IF ~ra.returns THEN NoReturn(<<Applied(pa, input)>>)
    ELSE IF ~ra.ok THEN Failure(ra.error, <<Applied(pa, input)>>)
    ELSE LET rb == Run(pb, input)
             calls == <<Applied(pa, input), Applied(pb, input)>>
         IN  IF ~rb.returns THEN NoReturn(calls)
             ELSE IF ~rb.ok THEN Failure(rb.error, calls)
             ELSE Success(<<ra.value[1], rb.value[1]>>, rb.rest, calls)

\* sequence(pa, pb): pa(input).and_then(pb(rest1).transform(pair)).
RunSequence(pa, pb, input) ==
    LET ra == Run(pa, input) IN
    IF ~ra.returns THEN NoReturn(<<Applied(pa, input)>>)
    ELSE IF ~ra.ok THEN Failure(ra.error, <<Applied(pa, input)>>)
    ELSE LET rb == Run(pb, ra.rest)
             calls == <<Applied(pa, input), Applied(pb, ra.rest)>>
         IN  IF ~rb.returns THEN NoReturn(calls)
             ELSE IF ~rb.ok THEN Failure(rb.error, calls)
             ELSE Success(<<ra.value[1], rb.value[1]>>, rb.rest, calls)

\* choice(p1, p2): p1's result if it is a success, else whatever p2 returns.
RunChoice(p1, p2, input) ==
    LET r == Run(p1, input) IN
    IF ~r.returns THEN NoReturn(<<Applied(p1, input)>>)
    ELSE IF r.ok THEN Success(r.value[1], r.rest, <<Applied(p1, input)>>)
    ELSE LET r2 == Run(p2, input)
             calls == <<Applied(p1, input), Applied(p2, input)>>
         IN  IF ~r2.returns THEN NoReturn(calls)
             ELSE IF r2.ok THEN Success(r2.value[1], r2.rest, calls)
             ELSE Failure(r2.error, calls)

\* choice(parsers): the loop over the list, from index i on.
ChoiceLoop(parsers, i, input, calls) ==
    IF i > Len(parsers) THEN Failure("MalformedRequest", calls)
    ELSE LET r == Run(parsers[i], input)
             calls2 == Append(calls, Applied(parsers[i], input))
         IN  IF ~r.returns THEN NoReturn(calls2)
             ELSE IF r.ok THEN Success(r.value[1], r.rest, calls2)
             ELSE ChoiceLoop(parsers, i + 1, input, calls2)

\* map(p, f): p(input).transform(f on the value).
RunMap(p, f, input) ==
    LET r == Run(p, input) IN
    IF ~r.returns THEN NoReturn(<<Applied(p, input)>>)
    ELSE IF ~r.ok THEN Failure(r.error, <<Applied(p, input)>>)
    ELSE Success(ApplyFn(f, r.value[1]), r.rest, <<Applied(p, input)>>)

\* many(p): the while (true) loop.  It leaves only when p fails; when p
\* succeeds and hands back the input it was given, the next iteration is
\* the same call again and the loop never leaves.
ManyLoop(p, current_input, results, calls) ==
    LET result == Run(p, current_input)
        calls2 == Append(calls, Applied(p, current_input))
    IN  IF ~result.returns THEN NoReturn(calls2)
        ELSE IF ~result.ok THEN Success(results, current_input, calls2)
        ELSE IF result.rest = current_input THEN NoReturn(calls2)
        ELSE ManyLoop(p, result.rest, Append(results, result.value[1]), calls2)

\* many(p) applying p once at most.
RunManyOnce(p, input) ==
    LET r == Run(p, input) IN
    IF ~r.returns THEN NoReturn(<<Applied(p, input)>>)
    ELSE IF ~r.ok THEN Success(<<>>, input, <<Applied(p, input)>>)
    ELSE Success(<<r.value[1]>>, r.rest, <<Applied(p, input)>>)

RunMany(p, input) == ManyLoop(p, input, <<>>, <<>>)

\* many1(p): p once, then many(p) on the rest.
RunMany1(p, input) ==
    LET r == Run(p, input) IN
    IF ~r.returns THEN NoReturn(<<Applied(p, input)>>)
    ELSE IF ~r.ok THEN Failure(r.error, <<Applied(p, input)>>)
    ELSE LET m == RunMany(p, r.rest)
             calls == <<Applied(p, input), Applied(many(p), r.rest)>>
         IN  IF ~m.returns THEN NoReturn(calls)
             ELSE Success(<<r.value[1]>> \o m.value[1], m.rest, calls)

\* spaces(): drops the leading white space; always a success.
RunSpaces(input) ==
    Success(Monostate, Drop(input, FindNotIn(input, 1, SpaceChars) - 1), <<>>)

\* take_until(delimiter): up to the first delimiter, which stays in rest.
RunTakeUntil(delimiter, input) ==
    LET pos == FindIn(input, 1, {delimiter}) IN
    IF pos > Len(input) THEN Failure("IncompleteRequest", <<>>)
    ELSE Success(Take(input, pos - 1), Drop(input, pos - 1), <<>>)

Run(p, input) ==
    CASE p.op = "one_char"   -> RunOneChar(input)
      [] p.op = "satisfy"    -> RunSatisfy(p.name, input)
      [] p.op = "string"     -> RunString(p.s, input)
      [] p.op = "sequence"   -> RunSequence(p.ps[1], p.ps[2], input)
      [] p.op = "choice"     -> RunChoice(p.ps[1], p.ps[2], input)
      [] p.op = "choiceOf"   -> ChoiceLoop(p.ps, 1, input, <<>>)
      [] p.op = "map"        -> RunMap(p.ps[1], p.name, input)
      [] p.op = "many"       -> RunMany(p.ps[1], input)
      [] p.op = "many1"      -> RunMany1(p.ps[1], input)
      [] p.op = "spaces"     -> RunSpaces(input)
      [] p.op = "take_until" -> RunTakeUntil(p.s[1], input)

-----------------------------------------------------------------------------
(* The HTTP request grammar (parser/http_parser.hpp).                      *)

CRLF == <<"\r", "\n">>

LitGet == <<"G", "E", "T">>
LitPost == <<"P", "O", "S", "T">>
LitHead == <<"H", "E", "A", "D">>
LitPut == <<"P", "U", "T">>
LitDelete == <<"D", "E", "L", "E", "T", "E">>
LitOptions == <<"O", "P", "T", "I", "O", "N", "S">>
LitTrace == <<"T", "R", "A", "C", "E">>
LitConnect == <<"C", "O", "N", "N", "E", "C", "T">>
LitPatch == <<"P", "A", "T", "C", "H">>
LitHttp10 == <<"H", "T", "T", "P", "/", "1", ".", "0">>
LitHttp11 == <<"H", "T", "T", "P", "/", "1", ".", "1">>

\* The header name content_length() looks up (parser/types.hpp).
LitContentLength == <<"C", "o", "n", "t", "e", "n", "t", "-", "L", "e", "n", "g", "t", "h">>

\* parse_method() without its last alternative.
parse_method_short ==
    choiceOf(<<map(string(LitGet), "Get"),
               map(string(LitPost), "Post"),
               map(string(LitHead), "Head"),
               map(string(LitPut), "Put"),
               map(string(LitDelete), "Delete"),
               map(string(LitOptions), "Options"),
               map(string(LitTrace), "Trace"),
               map(string(LitConnect), "Connect")>>)

\* parse_method(): the list choice over the nine method literals.
\* parse_method with "P" in the place of "PUT": an alternative that is a
\* prefix of "POST" and of "PATCH".
parse_method_overlapping ==
    choiceOf(<<map(string(LitGet), "Get"),
               map(string(LitPost), "Post"),
               map(string(LitHead), "Head"),
               map(string(<<"P">>), "Put"),
               map(string(LitDelete), "Delete"),
               map(string(LitOptions), "Options"),
               map(string(LitTrace), "Trace"),
               map(string(LitConnect), "Connect"),
               map(string(LitPatch), "Patch")>>)

parse_method ==
    choiceOf(<<map(string(LitGet), "Get"),
               map(string(LitPost), "Post"),
               map(string(LitHead), "Head"),
               map(string(LitPut), "Put"),
               map(string(LitDelete), "Delete"),
               map(string(LitOptions), "Options"),
               map(string(LitTrace), "Trace"),
               map(string(LitConnect), "Connect"),
               map(string(LitPatch), "Patch")>>)

\* parse_uri() stopping at a space only.
ParseUriToBlank(input) ==
    LET count == FindIn(input, 1, {" "}) - 1 IN
    IF count = 0 THEN Failure("InvalidUri", <<>>)
    ELSE Success(Take(input, count), Drop(input, count), <<>>)

\* parse_uri(): the characters up to the first white space, at least one.
ParseUri(input) ==
    LET count == FindIn(input, 1, SpaceChars) - 1 IN
    IF count = 0 THEN Failure("InvalidUri", <<>>)
    ELSE Success(Take(input, count), Drop(input, count), <<>>)

\* parse_version(): the list choice over the two version literals.
parse_version ==
    choiceOf(<<map(string(LitHttp10), "Http10"), map(string(LitHttp11), "Http11")>>)

crlf == map(string(CRLF), Monostate)
sp   == map(string(<<" ">>), Monostate)

\* parse_request_line() naming the part that failed: InvalidMethod for the
\* method and InvalidVersion for the version.
ParseRequestLineNamed(input) ==
    LET method_result == Run(parse_method, input) IN
    IF ~method_result.ok THEN Failure("InvalidMethod", <<>>) ELSE
    LET sp1_result == Run(sp, method_result.rest) IN
    IF ~sp1_result.ok THEN Failure(sp1_result.error, <<>>) ELSE
    LET uri_result == ParseUri(sp1_result.rest) IN
    IF ~uri_result.ok THEN Failure(uri_result.error, <<>>) ELSE
    LET sp2_result == Run(sp, uri_result.rest) IN
    IF ~sp2_result.ok THEN Failure(sp2_result.error, <<>>) ELSE
    LET version_result == Run(parse_version, sp2_result.rest) IN
    IF ~version_result.ok THEN Failure("InvalidVersion", <<>>) ELSE
    LET crlf_result == Run(crlf, version_result.rest) IN
    IF ~crlf_result.ok THEN Failure(crlf_result.error, <<>>) ELSE
    Success([method |-> method_result.value[1], uri |-> uri_result.value[1],
             version |-> version_result.value[1]],
            crlf_result.rest, <<>>)

\* parse_request_line(): method, sp, uri, sp, version, crlf, each on the
\* rest of the one before; the first error is returned as it is.
ParseRequestLine(input) ==
    LET method_result == Run(parse_method, input) IN
    IF ~method_result.ok THEN Failure(method_result.error, <<>>) ELSE
    LET sp1_result == Run(sp, method_result.rest) IN
    IF ~sp1_result.ok THEN Failure(sp1_result.error, <<>>) ELSE
    LET uri_result == ParseUri(sp1_result.rest) IN
    IF ~uri_result.ok THEN Failure(uri_result.error, <<>>) ELSE
    LET sp2_result == Run(sp, uri_result.rest) IN
    IF ~sp2_result.ok THEN Failure(sp2_result.error, <<>>) ELSE
    LET version_result == Run(parse_version, sp2_result.rest) IN
    IF ~version_result.ok THEN Failure(version_result.error, <<>>) ELSE
    LET crlf_result == Run(crlf, version_result.rest) IN
    IF ~crlf_result.ok THEN Failure(crlf_result.error, <<>>) ELSE
    Success([method |-> method_result.value[1], uri |-> uri_result.value[1],
             version |-> version_result.value[1]],
            crlf_result.rest, <<>>)

\* Index of the first occurrence of t in s at or after i, or Len(s) + 1:
\* std::string_view::find(t).
RECURSIVE FindSub(_, _, _)
FindSub(s, i, t) ==
    IF i + Len(t) - 1 > Len(s) THEN Len(s) + 1
    ELSE IF SubSeq(s, i, i + Len(t) - 1) = t THEN i
    ELSE FindSub(s, i + 1, t)

\* parse_header() leaving the CRLF of the line in rest.
ParseHeaderKeepCrlf(input) ==
    LET colon_pos == FindIn(input, 1, {":"}) IN
    IF colon_pos > Len(input) THEN Failure("InvalidHeader", <<>>) ELSE
    LET key == Take(input, colon_pos - 1)
        rest == Drop(input, colon_pos)
        skipped == FindNotIn(rest, 1, SpaceChars \ {"\r"}) - 1
        rest2 == Drop(rest, skipped)
        crlf_pos == FindSub(rest2, 1, CRLF)
    IN  IF crlf_pos > Len(rest2) THEN Failure("InvalidHeader", <<>>)
        ELSE Success(<<key, Take(rest2, crlf_pos - 1)>>,
                     Drop(rest2, crlf_pos - 1), <<>>)

\* parse_header(): the key is everything before the first ':', the value
\* what follows it, less leading white space other than '\r', up to the
\* first CRLF; rest starts after that CRLF.
ParseHeader(input) ==
    LET colon_pos == FindIn(input, 1, {":"}) IN
    IF colon_pos > Len(input) THEN Failure("InvalidHeader", <<>>) ELSE
    LET key == Take(input, colon_pos - 1)
        rest == Drop(input, colon_pos)
        skipped == FindNotIn(rest, 1, SpaceChars \ {"\r"}) - 1
        rest2 == Drop(rest, skipped)
        crlf_pos == FindSub(rest2, 1, CRLF)
    IN  IF crlf_pos > Len(rest2) THEN Failure("InvalidHeader", <<>>)
        ELSE Success(<<key, Take(rest2, crlf_pos - 1)>>,
                     Drop(rest2, crlf_pos + 1), <<>>)

\* parse_headers(): header lines until the input starts with CRLF; each
\* (key, value) goes into the map with insert().
RECURSIVE HeadersLoop(_, _)
HeadersLoop(headers, current_input) ==
    IF StartsWith(current_input, CRLF)
    THEN Success(headers, Drop(current_input, 2), <<>>)
    ELSE LET header_result == ParseHeader(current_input) IN
         IF ~header_result.ok THEN Failure(header_result.error, <<>>)
         ELSE HeadersLoop(InsertHeader(headers, header_result.value[1][1],
                                       header_result.value[1][2]),
                          header_result.rest)

ParseHeaders(input) == HeadersLoop(NoHeaders, input)

\* parse_headers() entered: the locals before the first iteration of its
\* loop; iterations counts the times the loop body has been entered.
HeadersStart(input) ==
    [done |-> FALSE, headers |-> NoHeaders, current_input |-> input,
     iterations |-> 0, outcome |-> NoReturn(<<>>)]

\* An iteration that forgets current_input = rest.
HeadersStepRescan(st) ==
    IF StartsWith(st.current_input, CRLF)
    THEN [st EXCEPT !.done = TRUE, !.iterations = @ + 1,
                    !.outcome = Success(st.headers, Drop(st.current_input, 2), <<>>)]
    ELSE LET header_result == ParseHeader(st.current_input) IN
         IF ~header_result.ok
         THEN [st EXCEPT !.done = TRUE, !.iterations = @ + 1,
                         !.outcome = Failure(header_result.error, <<>>)]
         ELSE [st EXCEPT !.iterations = @ + 1,
                         !.headers = InsertHeader(@, header_result.value[1][1],
                                                  header_result.value[1][2])]

\* One iteration of the loop of parse_headers(): return at the CRLF that
\* ends the headers, return parse_header's error, or insert the header and
\* go on with what parse_header left.
HeadersStep(st) ==
    IF StartsWith(st.current_input, CRLF)
    THEN [st EXCEPT !.done = TRUE, !.iterations = @ + 1,
                    !.outcome = Success(st.headers, Drop(st.current_input, 2), <<>>)]
    ELSE LET header_result == ParseHeader(st.current_input) IN
         IF ~header_result.ok
         THEN [st EXCEPT !.done = TRUE, !.iterations = @ + 1,
                         !.outcome = Failure(header_result.error, <<>>)]
         ELSE [st EXCEPT !.iterations = @ + 1,
                         !.headers = InsertHeader(@, header_result.value[1][1],
                                                  header_result.value[1][2]),
                         !.current_input = header_result.rest]

\* parse_http_request() keeping only as many bytes of the body as a
\* one-digit Content-Length header says.
ParseHttpRequestClipped(input) ==
    LET request_line_result == ParseRequestLine(input) IN
    IF ~request_line_result.ok THEN Failure(request_line_result.error, <<>>) ELSE
    LET headers_result == ParseHeaders(request_line_result.rest) IN
    IF ~headers_result.ok THEN Failure(headers_result.error, <<>>) ELSE
    LET headers == headers_result.value[1]
        said == IF LitContentLength \in DOMAIN headers
                THEN headers[LitContentLength] ELSE <<>>
        body == IF said = <<"1">> /\ Len(headers_result.rest) > 1
                THEN <<headers_result.rest[1]>>
                ELSE headers_result.rest
    IN  Success([request_line |-> request_line_result.value[1],
                 headers |-> headers, body |-> body],
                <<>>, <<>>)

\* parse_http_request(): the request line, the headers, and every byte
\* left as the body.
ParseHttpRequest(input) ==
    LET request_line_result == ParseRequestLine(input) IN
    IF ~request_line_result.ok THEN Failure(request_line_result.error, <<>>) ELSE
    LET headers_result == ParseHeaders(request_line_result.rest) IN
    IF ~headers_result.ok THEN Failure(headers_result.error, <<>>) ELSE
    Success([request_line |-> request_line_result.value[1],
             headers |-> headers_result.value[1],
             body |-> headers_result.rest],
            <<>>, <<>>)

-----------------------------------------------------------------------------
(* The grammar parsers on their own: each behaviour is one call of one     *)
(* parser on one input.                                                    *)

MaxMethodLen == 4     \* longest input enumerated letter by letter

MethodLiterals ==
    {LitGet, LitPost, LitHead, LitPut, LitDelete, LitOptions, LitTrace,
     LitConnect, LitPatch}

\* Inputs of parse_method: every string over a few letters, and the method
\* literals and near misses of them followed by a few remainders.
MethodChars == {"G", "E", "T", "P", "U", " "}
MethodWords ==
    MethodLiterals \cup
    {<<"g", "e", "t">>,
     <<"G", "e", "t">>,
     <<"G", "E">>,
     <<"P", "A", "T", "C">>,
     <<"X", "G", "E", "T">>,
     <<"P", "O", "S", "T">>,
     <<>>,
     <<"O", "P", "T", "I", "O", "N">>}
MethodRests ==
    {<<>>,
     <<" ">>,
     <<" ", "/", "a">>,
     <<"\t", "/", "a">>,
     <<"X", " ", "/", "a">>,
     <<" ", " ">>,
     <<"\r", "\n">>}
MethodInputs ==
    Strings(MethodChars, MaxMethodLen) \cup
    {w \o r : w \in MethodWords, r \in MethodRests}

\* Inputs of parse_request_line: a method, a separator, a target, a
\* separator, a version, a line end and a remainder, each right or wrong.
LineMethods == {<<"G", "E", "T">>,
                <<"P", "O", "S", "T">>,
                <<"P", "A", "T", "C", "H">>,
                <<"g", "e", "t">>,
                <<>>}
LineSeps    == {<<" ">>,
                <<" ", " ">>,
                <<"\t">>,
                <<>>}
LineUris    == {<<"/", "a">>,
                <<"/">>,
                <<"/", "\t", "b">>,
                <<>>}
LineVersions == {<<"H", "T", "T", "P", "/", "1", ".", "0">>,
                 <<"H", "T", "T", "P", "/", "1", ".", "1">>,
                 <<"H", "T", "T", "P", "/", "2", ".", "0">>,
                 <<"H", "T", "T", "P", "/", "1", ".">>}
LineEnds    == {<<"\r", "\n">>,
                <<"\n">>,
                <<"\r">>,
                <<>>,
                <<"2", "\r", "\n">>}
LineRests   == {<<>>,
                <<"X">>,
                <<"\r", "\n">>,
                <<"H", ":", "v", "\r", "\n", "\r", "\n">>}
RequestLineInputs ==
    {m \o s1 \o u \o s2 \o v \o e \o r :
        m \in LineMethods, s1 \in LineSeps, u \in LineUris, s2 \in LineSeps,
        v \in LineVersions, e \in LineEnds, r \in LineRests}

\* parse_method()(input)
MethodCall ==
    /\ pcall.fn = "none"
    /\ \E input \in MethodInputs :
           pcall' = [fn |-> "parse_method", input |-> input,
                     result |-> Run(parse_method, input)]
    /\ UNCHANGED <<ccall, matcherVars, routerVars, composeVars, asyncVars>>

\* parse_request_line()(input)
RequestLineCall ==
    /\ pcall.fn = "none"
    /\ \E input \in RequestLineInputs :
           pcall' = [fn |-> "parse_request_line", input |-> input,
                     result |-> ParseRequestLine(input)]
    /\ UNCHANGED <<ccall, matcherVars, routerVars, composeVars, asyncVars>>

MaxHeaderLines == 2   \* most header lines in an enumerated header block

\* s1 \o s2 \o ... for a sequence of strings.
RECURSIVE Flatten(_)
Flatten(ss) == IF ss = <<>> THEN <<>> ELSE Head(ss) \o Flatten(Tail(ss))

\* Header lines: a name, a colon, optional white space, a value and CRLF;
\* and a few lines that lack the colon or the CR.
LineNames  == {<<"H">>, LitContentLength}
LineOws    == {<<>>, <<" ">>}
LineValues == {<<"1">>, <<"x">>}
HeaderLines ==
    {n \o <<":">> \o o \o v \o CRLF :
        n \in LineNames, o \in LineOws, v \in LineValues}
    \cup {<<"H", ":", "\r", "\n">>,
           <<"H", "\r", "\n">>,
           <<"H", ":", " ", "x", "\n">>}
Bodies == {<<>>,
           <<"b">>,
           <<"\r", "\n", "b">>}
HeaderBlocks(n) ==
    {Flatten(ls) \o CRLF \o b : ls \in Strings(HeaderLines, n), b \in Bodies}

\* Inputs of parse_header and parse_headers: header blocks, whole and cut
\* short.
Prefixes(S) ==
    LET lens == {Len(x) : x \in S}
        longest == CHOOSE n \in lens : \A m \in lens : m <= n
    IN  {Take(x, IF k < Len(x) THEN k ELSE Len(x)) : x \in S, k \in 0..longest}

HeadersInputs(n) == Prefixes(HeaderBlocks(n))

\* Inputs of parse_http_request: a request line and a header block, whole
\* and cut short.
RequestLines ==
    {LitGet \o <<" ", "/", " ">> \o LitHttp11 \o CRLF,
     LitPost \o <<" ", "/", " ">> \o LitHttp10 \o CRLF}
RequestInputs(n) == Prefixes({l \o x : l \in RequestLines, x \in HeaderBlocks(n)})

-----------------------------------------------------------------------------
(* The request model (parser/types.hpp).  An unsigned long or size_t is    *)
(* written as its decimal numeral without leading zeros, so that values    *)
(* up to and beyond ULONG_MAX can be told apart.                           *)

Digits == <<"0", "1", "2", "3", "4", "5", "6", "7", "8", "9">>
DigitValue(c) == CHOOSE i \in 0..9 : Digits[i + 1] = c

\* ULONG_MAX where unsigned long has 64 bits: 2^64 - 1.
ULongMax == <<"1", "8", "4", "4", "6", "7", "4", "4", "0", "7", "3", "7", "0", "9", "5", "5", "1", "6", "1", "5">>

Zero == <<"0">>

\* The numeral s without its leading zeros.
RECURSIVE StripZeros(_)
StripZeros(s) ==
    IF Len(s) > 1 /\ s[1] = "0" THEN StripZeros(Tail(s)) ELSE s

\* a < b for numerals of the same length.
RECURSIVE DigitsLess(_, _)
DigitsLess(a, b) ==
    /\ a # <<>>
    /\ \/ DigitValue(a[1]) < DigitValue(b[1])
       \/ a[1] = b[1] /\ DigitsLess(Tail(a), Tail(b))

\* a <= b for numerals without leading zeros.
NumeralLeq(a, b) ==
    \/ Len(a) < Len(b)
    \/ Len(a) = Len(b) /\ (a = b \/ DigitsLess(a, b))

\* std::stoul(s) on a string of digits: its value, or std::out_of_range
\* when the value does not fit an unsigned long.
Stoul(s) ==
    IF NumeralLeq(StripZeros(s), ULongMax)
    THEN [thrown |-> FALSE, value |-> StripZeros(s)]
    ELSE [thrown |-> TRUE, value |-> Zero]

\* HttpRequest::header(key): the value, or nullopt.
Header(req, key) ==
    IF key \in DOMAIN req.headers
    THEN [found |-> TRUE, value |-> req.headers[key]]
    ELSE [found |-> FALSE, value |-> <<>>]

\* The lambda is_valid_number of content_length().
is_valid_number(s) ==
    s # <<>> /\ s[1] # "-" /\ \A i \in 1..Len(s) : IsDigit(s[i])

\* content_length() without the try block around std::stoul.
ContentLengthUncaught(req) ==
    LET h == Header(req, LitContentLength) IN
    IF ~h.found THEN [raised |-> FALSE, value |-> Zero]
    ELSE IF ~is_valid_number(h.value) THEN [raised |-> FALSE, value |-> Zero]
    ELSE [raised |-> Stoul(h.value).thrown, value |-> Stoul(h.value).value]

\* HttpRequest::content_length(): nullopt, and so 0, when the header is
\* missing, is not a number, or std::stoul throws.
ContentLength(req) ==
    LET h == Header(req, LitContentLength) IN
    IF ~h.found THEN [raised |-> FALSE, value |-> Zero]
    ELSE IF ~is_valid_number(h.value) THEN [raised |-> FALSE, value |-> Zero]
    ELSE IF Stoul(h.value).thrown THEN [raised |-> FALSE, value |-> Zero]
    ELSE [raised |-> FALSE, value |-> Stoul(h.value).value]

MaxValueLen == 3      \* longest Content-Length value enumerated by character

\* Content-Length values: every short string over a few characters, and
\* numerals around ULONG_MAX.
ValueChars == {"0", "1", "9", "-", "+", "a", " "}
LongValues ==
    {<<"1", "8", "4", "4", "6", "7", "4", "4", "0", "7", "3", "7", "0", "9", "5", "5", "1", "6", "1", "5">>,
     <<"1", "8", "4", "4", "6", "7", "4", "4", "0", "7", "3", "7", "0", "9", "5", "5", "1", "6", "1", "6">>,
     <<"1", "8", "4", "4", "6", "7", "4", "4", "0", "7", "3", "7", "0", "9", "5", "5", "1", "6", "1", "4">>,
     <<"9", "9", "9", "9", "9", "9", "9", "9", "9", "9", "9", "9", "9", "9", "9", "9", "9", "9", "9", "9">>,
     <<"0", "1", "8", "4", "4", "6", "7", "4", "4", "0", "7", "3", "7", "0", "9", "5", "5", "1", "6", "1", "5">>,
     <<"1", "0", "0", "0", "0", "0", "0", "0", "0", "0", "0", "0", "0", "0", "0", "0", "0", "0", "0", "0", "0">>,
     <<"4", "2", "9", "4", "9", "6", "7", "2", "9", "6">>,
     <<"-", "1", "8", "4", "4", "6", "7", "4", "4", "0", "7", "3", "7", "0", "9", "5", "5", "1", "6", "1", "5">>}
ContentLengthValues == Strings(ValueChars, MaxValueLen) \cup LongValues

\* Requests for content_length(): without the header, and with each value.
HeaderMaps ==
    {NoHeaders, SetHeader(NoHeaders, <<"H">>, <<"5">>)} \cup
    {SetHeader(NoHeaders, LitContentLength, v) : v \in ContentLengthValues}

\* parse_header()(input)
HeaderCall ==
    /\ pcall.fn = "none"
    /\ \E input \in HeadersInputs(MaxHeaderLines) :
           pcall' = [fn |-> "parse_header", input |-> input,
                     result |-> ParseHeader(input)]
    /\ UNCHANGED <<ccall, matcherVars, routerVars, composeVars, asyncVars>>

\* parse_headers()(input)
HeadersCall ==
    /\ pcall.fn = "none"
    /\ \E input \in HeadersInputs(MaxHeaderLines) :
           pcall' = [fn |-> "parse_headers", input |-> input,
                     result |-> ParseHeaders(input)]
    /\ UNCHANGED <<ccall, matcherVars, routerVars, composeVars, asyncVars>>

\* parse_headers()(input) followed iteration by iteration: the call is
\* entered.
HeadersEnter ==
    /\ pcall.fn = "none"
    /\ \E input \in HeadersInputs(MaxHeaderLines) :
           pcall' = [fn |-> "parse_headers loop", input |-> input,
                     result |-> HeadersStart(input)]
    /\ UNCHANGED <<ccall, matcherVars, routerVars, composeVars, asyncVars>>

\* The loop runs its next iteration.  (The count is followed no further
\* than two more than the input has bytes.)
HeadersIterate ==
    /\ pcall.fn = "parse_headers loop"
    /\ ~pcall.result.done
    /\ pcall.result.iterations <= Len(pcall.input) + 1
    /\ pcall' = [pcall EXCEPT !.result = HeadersStep(@)]
    /\ UNCHANGED <<ccall, matcherVars, routerVars, composeVars, asyncVars>>

\* parse_http_request(input)
RequestCall ==
    /\ pcall.fn = "none"
    /\ \E input \in RequestInputs(MaxHeaderLines) :
           pcall' = [fn |-> "parse_http_request", input |-> input,
                     result |-> ParseHttpRequest(input)]
    /\ UNCHANGED <<ccall, matcherVars, routerVars, composeVars, asyncVars>>

\* req.content_length() on a request with the given headers
ContentLengthCall ==
    /\ pcall.fn = "none"
    /\ \E headers \in HeaderMaps :
           pcall' = [fn |-> "content_length", input |-> headers,
                     result |-> ContentLength([headers |-> headers])]
    /\ UNCHANGED <<ccall, matcherVars, routerVars, composeVars, asyncVars>>

\* Inputs of parse_version: the version literals, near misses of them and
\* their prefixes, with and without bytes after them.
VersionInputs ==
    Prefixes(LineVersions) \cup
    {v \o e : v \in LineVersions \cup {<<"h", "t", "t", "p", "/", "1", ".", "1">>,
                                        <<"H", "T", "T", "P", "/", "1", ".", "1", "1">>},
              e \in LineEnds}

\* parse_version()(input)
VersionCall ==
    /\ pcall.fn = "none"
    /\ \E input \in VersionInputs :
           pcall' = [fn |-> "parse_version", input |-> input,
                     result |-> Run(parse_version, input)]
    /\ UNCHANGED <<ccall, matcherVars, routerVars, composeVars, asyncVars>>

NextGrammar ==
    \/ MethodCall
    \/ VersionCall
    \/ RequestLineCall
    \/ HeaderCall
    \/ HeadersCall
    \/ HeadersEnter
    \/ HeadersIterate
    \/ RequestCall
    \/ ContentLengthCall

SpecGrammar == Init /\ [][NextGrammar]_vars

-----------------------------------------------------------------------------
(* Properties of the grammar parsers.                                      *)

\* The nine method literals and the Method each one stands for.
MethodTable ==
    {<<LitGet, "Get">>, <<LitPost, "Post">>, <<LitHead, "Head">>,
     <<LitPut, "Put">>, <<LitDelete, "Delete">>, <<LitOptions, "Options">>,
     <<LitTrace, "Trace">>, <<LitConnect, "Connect">>, <<LitPatch, "Patch">>}

\* The two version literals and the Version each one stands for.
VersionTable == {<<LitHttp10, "Http10">>, <<LitHttp11, "Http11">>}

\* C11: parse_method on a method literal followed by a remainder that starts
\* with a space succeeds with that literal's Method and exactly that
\* remainder; on an input that starts with none of the nine literals it
\* fails.
C11_ParseMethod ==
    pcall.fn = "parse_method" =>
        /\ \A e \in MethodTable :
              LET r == Drop(pcall.input, Len(e[1])) IN
              (StartsWith(pcall.input, e[1]) /\ StartsWith(r, <<" ">>)) =>
                  /\ pcall.result.ok
                  /\ pcall.result.value[1] = e[2]
                  /\ pcall.result.rest = r
        /\ (\A e \in MethodTable : ~StartsWith(pcall.input, e[1])) =>
              ~pcall.result.ok

C11_Witness ==
    /\ pcall.fn = "parse_method"
    /\ pcall.input = LitPatch \o <<" ", "/", "a">>
    /\ pcall.result.ok
    /\ pcall.result.value[1] = "Patch"

\* The ways to read x as METHOD SP URI SP VERSION CRLF remainder, where
\* METHOD and VERSION are literals and URI is one or more characters none
\* of which is white space.
LineForms(x) ==
    {[method |-> t[1][2],
      uri |-> SubSeq(x, Len(t[1][1]) + 2, Len(t[1][1]) + 1 + t[3]),
      version |-> t[2][2],
      rest |-> Drop(x, Len(t[1][1]) + t[3] + Len(t[2][1]) + 4)] :
        t \in {t \in MethodTable \X VersionTable \X (1..Len(x)) :
                 Len(t[1][1]) + t[3] + Len(t[2][1]) + 4 <= Len(x) /\
                 LET uri == SubSeq(x, Len(t[1][1]) + 2, Len(t[1][1]) + 1 + t[3])
                 IN  /\ \A i \in 1..Len(uri) : uri[i] \notin SpaceChars
                     /\ StartsWith(x, t[1][1] \o <<" ">> \o uri \o <<" ">>
                                         \o t[2][1] \o CRLF)}}

\* C12: parse_request_line succeeds exactly on METHOD SP URI SP VERSION
\* CRLF remainder, and then returns that method, URI, version and
\* remainder; on every other input it fails.
C12_ParseRequestLine ==
    pcall.fn = "parse_request_line" =>
        IF LineForms(pcall.input) = {}
        THEN ~pcall.result.ok
        ELSE /\ pcall.result.ok
             /\ [method |-> pcall.result.value[1].method,
                 uri |-> pcall.result.value[1].uri,
                 version |-> pcall.result.value[1].version,
                 rest |-> pcall.result.rest] \in LineForms(pcall.input)

C12_Witness ==
    /\ pcall.fn = "parse_request_line"
    /\ pcall.input = LitPost \o <<" ", "/", "a", " ">> \o LitHttp10 \o CRLF \o <<"X">>
    /\ pcall.result.ok
    /\ pcall.result.rest = <<"X">>

\* A well-formed header line, without its CRLF: a name of one or more
\* characters that are neither ':' nor white space, a colon, and a value;
\* no CR or LF anywhere.
WellFormedLine(line) ==
    LET c == FindIn(line, 1, {":"}) IN
    /\ 1 < c /\ c <= Len(line)
    /\ \A i \in 1..(c - 1) : line[i] \notin SpaceChars
    /\ \A i \in 1..Len(line) : line[i] \notin {"\r", "\n"}

LineName(line) == Take(line, FindIn(line, 1, {":"}) - 1)

\* The value of a line: what follows the colon, less leading blanks.
LineValue(line) ==
    LET after == Drop(line, FindIn(line, 1, {":"})) IN
    Drop(after, FindNotIn(after, 1, {" ", "\t"}) - 1)

\* x read as well-formed header lines, an empty line and a remainder:
\* the (name, value) pairs in order and the remainder, if x has that form.
RECURSIVE BlockFrom(_, _)
BlockFrom(x, pairs) ==
    IF StartsWith(x, CRLF)
    THEN [wf |-> TRUE, pairs |-> pairs, rest |-> Drop(x, 2)]
    ELSE LET e == FindSub(x, 1, CRLF) IN
         IF e > Len(x) \/ ~WellFormedLine(Take(x, e - 1))
         THEN [wf |-> FALSE, pairs |-> <<>>, rest |-> <<>>]
         ELSE BlockFrom(Drop(x, e + 1),
                        Append(pairs, <<LineName(Take(x, e - 1)),
                                        LineValue(Take(x, e - 1))>>))

Block(x) == BlockFrom(x, <<>>)

Names(pairs) == {pairs[i][1] : i \in 1..Len(pairs)}

\* The value of the last pair named name.
LastValue(pairs, name) ==
    LET last == CHOOSE i \in 1..Len(pairs) :
                    /\ pairs[i][1] = name
                    /\ \A j \in (i + 1)..Len(pairs) : pairs[j][1] # name
    IN  pairs[last][2]

\* C13: when a name occurs more than once in a header block, the mapping
\* parse_headers returns holds the value of its last occurrence.
C13_LastDuplicateWins ==
    (pcall.fn = "parse_headers" /\ Block(pcall.input).wf) =>
        /\ pcall.result.ok
        /\ \A name \in Names(Block(pcall.input).pairs) :
              /\ name \in DOMAIN pcall.result.value[1]
              /\ pcall.result.value[1][name] =
                     LastValue(Block(pcall.input).pairs, name)

\* C14: parse_headers on well-formed header lines, an empty line and a
\* remainder r returns one entry per distinct name and exactly r; on an
\* input that begins with CRLF, the empty mapping and the input less
\* that CRLF.
C14_ParseHeaders ==
    pcall.fn = "parse_headers" =>
        /\ Block(pcall.input).wf =>
              /\ pcall.result.ok
              /\ DOMAIN pcall.result.value[1] = Names(Block(pcall.input).pairs)
              /\ pcall.result.rest = Block(pcall.input).rest
        /\ StartsWith(pcall.input, CRLF) =>
              /\ pcall.result.ok
              /\ pcall.result.value[1] = NoHeaders
              /\ pcall.result.rest = Drop(pcall.input, 2)

C14_Witness ==
    /\ pcall.fn = "parse_headers"
    /\ Block(pcall.input).wf
    /\ Cardinality(Names(Block(pcall.input).pairs)) = 2
    /\ pcall.result.ok
    /\ pcall.result.rest = <<"b">>

\* C15: when parse_http_request succeeds, the body is the input from just
\* after the CRLF that ends the header block to its end, byte for byte,
\* whatever the Content-Length header says.
C15_BodyIsEverythingAfterHeaders ==
    (pcall.fn = "parse_http_request" /\ pcall.result.ok) =>
        LET body == pcall.result.value[1].body
            k == Len(pcall.input) - Len(body)
            line_end == FindSub(pcall.input, 1, CRLF) + 1
        IN  /\ k >= 4
            /\ SubSeq(pcall.input, k - 3, k) = CRLF \o CRLF
            /\ body = Drop(pcall.input, k)
            /\ Block(Drop(pcall.input, line_end)).wf =>
                   body = Block(Drop(pcall.input, line_end)).rest

\* A Content-Length of 1 and three bytes after the header block.
C15_Witness ==
    /\ pcall.fn = "parse_http_request"
    /\ pcall.result.ok
    /\ LitContentLength \in DOMAIN pcall.result.value[1].headers
    /\ pcall.result.value[1].headers[LitContentLength] = <<"1">>
    /\ pcall.result.value[1].body = <<"\r", "\n", "b">>

\* The numeral s with zeros in front, to n digits.
RECURSIVE Pad(_, _)
Pad(s, n) == IF Len(s) >= n THEN s ELSE Pad(<<"0">> \o s, n)

Longer(a, b) == IF Len(a) >= Len(b) THEN Len(a) ELSE Len(b)

\* Strings of digits a and b write the same number.
SameNumber(a, b) == Pad(a, Longer(a, b)) = Pad(b, Longer(a, b))

\* The number the digits of a write is at most ULONG_MAX.
FitsULong(a) ==
    \/ SameNumber(a, ULongMax)
    \/ DigitsLess(Pad(a, Longer(a, ULongMax)), Pad(ULongMax, Longer(a, ULongMax)))

AllDigits(s) == s # <<>> /\ \A i \in 1..Len(s) : IsDigit(s[i])

\* The Content-Length value of the request of the last content_length()
\* call; Absent when it has none.
Absent == <<"absent">>
SaidLength ==
    IF LitContentLength \in DOMAIN pcall.input
    THEN pcall.input[LitContentLength] ELSE Absent

\* C16 as stated: content_length() returns 0 when the header is absent,
\* empty or has a character that is not a digit, returns the number the
\* header writes for every non-empty string of digits, and never raises.
C16_ContentLength ==
    pcall.fn = "content_length" =>
        /\ ~pcall.result.raised
        /\ (SaidLength = Absent \/ ~AllDigits(SaidLength)) =>
               pcall.result.value = Zero
        /\ (SaidLength # Absent /\ AllDigits(SaidLength)) =>
               SameNumber(pcall.result.value, SaidLength)

\* C16, amended: content_length() returns 0 when the header is absent,
\* empty, has a character that is not a digit, or writes a number greater
\* than ULONG_MAX; it returns the number the header writes for every other
\* non-empty string of digits; it never raises.
C16_ContentLengthInRange ==
    pcall.fn = "content_length" =>
        /\ ~pcall.result.raised
        /\ (SaidLength = Absent \/ ~AllDigits(SaidLength)) =>
               pcall.result.value = Zero
        /\ (SaidLength # Absent /\ AllDigits(SaidLength)
                /\ ~FitsULong(SaidLength)) =>
               pcall.result.value = Zero
        /\ (SaidLength # Absent /\ AllDigits(SaidLength)
                /\ FitsULong(SaidLength)) =>
               /\ SameNumber(pcall.result.value, SaidLength)
               /\ (Len(pcall.result.value) = 1 \/ pcall.result.value[1] # "0")

\* A value one above ULONG_MAX.
C16_Witness ==
    /\ pcall.fn = "content_length"
    /\ SaidLength # Absent
    /\ AllDigits(SaidLength)
    /\ ~FitsULong(SaidLength)
    /\ pcall.result.value = Zero
    /\ ~pcall.result.raised

\* The grammar parser named fn, called on x.
Parse(fn, x) ==
    CASE fn = "parse_request_line" -> ParseRequestLine(x)
      [] fn = "parse_header"       -> ParseHeader(x)
      [] fn = "parse_headers"      -> ParseHeaders(x)
      [] fn = "parse_http_request" -> ParseHttpRequest(x)

\* Bytes that may arrive after an input that was cut short.
Completions ==
    {CRLF, CRLF \o CRLF, <<":">> \o CRLF, <<":", "x">> \o CRLF \o CRLF,
     <<"x">> \o CRLF \o CRLF}

\* C17: when parse_request_line, parse_header, parse_headers or
\* parse_http_request fails on x with an error other than
\* IncompleteRequest, it fails on every extension of x as well.
C17_OtherErrorsAreFinal ==
    (/\ pcall.fn \in {"parse_request_line", "parse_header", "parse_headers",
                      "parse_http_request"}
     /\ ~pcall.result.ok
     /\ pcall.result.error # "IncompleteRequest") =>
        \A y \in Completions : ~Parse(pcall.fn, pcall.input \o y).ok

-----------------------------------------------------------------------------
(* The combinators on their own: each behaviour is one call of one parser  *)
(* built by sequence, choice or many from a few simple parsers.            *)

MaxInputLen     == 3     \* longest input of a combinator-built parser
MaxAlternatives == 3     \* most parsers in the list given to choice

InputChars == {"a", "b", "1", " ", ":"}
Inputs == Strings(InputChars, MaxInputLen)

\* The parsers the combinators are applied to.  They fail in different
\* ways: one_char and take_until with IncompleteRequest, string with
\* MalformedRequest, satisfy with either; spaces and many never fail.
Alternatives ==
    {one_char, satisfy("isdigit"), string(<<"a">>), take_until(":")}
Parsers ==
    Alternatives \cup
    {string(<<"a", "b">>), spaces, many(satisfy("isdigit")),
     map(string(<<"a">>), "A"), choice(string(<<"a">>), string(<<"b">>))}

\* sequence(pa, pb)(input)
SequenceCall ==
    /\ ccall.fn = "none"
    /\ \E pa \in Parsers, pb \in Parsers, input \in Inputs :
           ccall' = [fn |-> "sequence", p |-> sequence(pa, pb), input |-> input,
                     result |-> Run(sequence(pa, pb), input)]
    /\ UNCHANGED <<pcall, matcherVars, routerVars, composeVars, asyncVars>>

\* choice(p1, p2)(input)
ChoiceCall ==
    /\ ccall.fn = "none"
    /\ \E p1 \in Parsers, p2 \in Parsers, input \in Inputs :
           ccall' = [fn |-> "choice", p |-> choice(p1, p2), input |-> input,
                     result |-> Run(choice(p1, p2), input)]
    /\ UNCHANGED <<pcall, matcherVars, routerVars, composeVars, asyncVars>>

\* choice({p1, ..., pn})(input)
ChoiceOfCall ==
    /\ ccall.fn = "none"
    /\ \E parsers \in Strings(Alternatives, MaxAlternatives), input \in Inputs :
           ccall' = [fn |-> "choiceOf", p |-> choiceOf(parsers), input |-> input,
                     result |-> Run(choiceOf(parsers), input)]
    /\ UNCHANGED <<pcall, matcherVars, routerVars, composeVars, asyncVars>>

\* many(p)(input)
ManyCall ==
    /\ ccall.fn = "none"
    /\ \E p \in Parsers, input \in Inputs :
           ccall' = [fn |-> "many", p |-> many(p), input |-> input,
                     result |-> Run(many(p), input)]
    /\ UNCHANGED <<pcall, matcherVars, routerVars, composeVars, asyncVars>>

NextCombinator == SequenceCall \/ ChoiceCall \/ ChoiceOfCall \/ ManyCall

SpecCombinator == Init /\ [][NextCombinator]_vars

-----------------------------------------------------------------------------
(* Properties of the combinators.                                          *)

\* The alternatives of the last choice call and what each returns on the
\* input of the call.
Alts == ccall.p.ps
AltResult(i) == Run(Alts[i], ccall.input)

\* The applications of the first n alternatives to the input of the call.
FirstApplied(n) == [i \in 1..n |-> Applied(Alts[i], ccall.input)]

\* C18: choice, with two parsers or a list, applies its alternatives in
\* order to the same input and returns the result of the first that
\* succeeds, running none after it; if all fail it returns
\* MalformedRequest, whatever their errors.
C18_Choice ==
    ccall.fn \in {"choice", "choiceOf"} =>
        IF \E i \in 1..Len(Alts) : AltResult(i).ok
        THEN LET first == CHOOSE i \in 1..Len(Alts) :
                              /\ AltResult(i).ok
                              /\ \A j \in 1..(i - 1) : ~AltResult(j).ok
             IN  /\ ccall.result.ok
                 /\ ccall.result.value = AltResult(first).value
                 /\ ccall.result.rest = AltResult(first).rest
                 /\ ccall.result.calls = FirstApplied(first)
        ELSE /\ ~ccall.result.ok
             /\ ccall.result.error = "MalformedRequest"
             /\ ccall.result.calls = FirstApplied(Len(Alts))

\* C19: sequence(pa, pb) runs pa on the input and pb on pa's remainder; it
\* succeeds with the pair of values and pb's remainder when both succeed,
\* returns pa's error without running pb when pa fails, and pb's error
\* when pb fails.
C19_Sequence ==
    ccall.fn = "sequence" =>
        LET pa == ccall.p.ps[1]
            pb == ccall.p.ps[2]
            ra == Run(pa, ccall.input)
        IN  IF ~ra.ok
            THEN /\ ~ccall.result.ok
                 /\ ccall.result.error = ra.error
                 /\ ccall.result.calls = <<Applied(pa, ccall.input)>>
            ELSE /\ ccall.result.calls =
                        <<Applied(pa, ccall.input), Applied(pb, ra.rest)>>
                 /\ IF ~Run(pb, ra.rest).ok
                    THEN /\ ~ccall.result.ok
                         /\ ccall.result.error = Run(pb, ra.rest).error
                    ELSE /\ ccall.result.ok
                         /\ ccall.result.value[1][1] = ra.value[1]
                         /\ ccall.result.value[1][2] = Run(pb, ra.rest).value[1]
                         /\ ccall.result.rest = Run(pb, ra.rest).rest

\* pa consumes the first character and pb fails on what is left.
C19_Witness ==
    /\ ccall.fn = "sequence"
    /\ ccall.p = sequence(string(<<"a">>), satisfy("isdigit"))
    /\ ccall.input = <<"a", "b">>
    /\ ~ccall.result.ok
    /\ ccall.result.error = "MalformedRequest"

\* The i-th application of p the last many call made.
Nth(i) == Run(ccall.result.calls[i].p, ccall.result.calls[i].input)

\* C20: many(p) never returns an error: it returns the values of the
\* applications of p from the input on, each on the remainder of the one
\* before, up to the first that fails, and the remainder of the last that
\* succeeded; that is the input itself and no value when the first
\* application fails.
C20_Many ==
    ccall.fn = "many" =>
        LET p == ccall.p.ps[1]
            values == ccall.result.value[1]
            calls == ccall.result.calls
            n == Len(values)
        IN  /\ ccall.result.returns
            /\ ccall.result.ok
            /\ Len(calls) = n + 1
            /\ calls[1] = Applied(p, ccall.input)
            /\ \A i \in 1..n :
                  /\ Nth(i).ok
                  /\ Nth(i).value[1] = values[i]
                  /\ calls[i + 1] = Applied(p, Nth(i).rest)
            /\ ~Nth(n + 1).ok
            /\ ccall.result.rest = calls[n + 1].input
            /\ ~Run(p, ccall.input).ok =>
                  values = <<>> /\ ccall.result.rest = ccall.input

-----------------------------------------------------------------------------
(* Properties of the built-in middlewares.                                 *)

AllowOrigin  == "Access-Control-Allow-Origin"
AllowMethods == "Access-Control-Allow-Methods"

\* next(req) has returned to the lambda of a middleware of this kind, which
\* is about to run its post-logic and return.
Leaving(kind) ==
    /\ creq.active
    /\ stack # <<>>
    /\ ret.set
    /\ Top.kind = "entered"
    /\ Top.lambda.kind = kind

\* The lambda of a middleware of this kind has been called and has not yet
\* run.
Entering(kind) ==
    /\ creq.active
    /\ stack # <<>>
    /\ ~ret.set
    /\ Top.kind = kind

\* C21: the response cors returns holds cors's own values for
\* Access-Control-Allow-Origin and Access-Control-Allow-Methods, whatever
\* the inner response held for them; its status code, body and other
\* headers are those of the inner response.
C21_CorsSetsBothHeaders ==
    [][Leaving("cors") =>
          /\ DOMAIN ret'.response.headers =
                 DOMAIN ret.response.headers \cup {AllowOrigin, AllowMethods}
          /\ ret'.response.headers[AllowOrigin] = "*"
          /\ ret'.response.headers[AllowMethods] = "GET, POST, PUT, DELETE"
          /\ ret'.response.status_code = ret.response.status_code
          /\ ret'.response.body = ret.response.body
          /\ \A k \in DOMAIN ret.response.headers \ {AllowOrigin, AllowMethods} :
                 ret'.response.headers[k] = ret.response.headers[k]]_vars

\* C22: the lambda of require_auth returns the 401 response with the fixed
\* text and does not call the inner handler when the check fails; when the
\* check passes it calls the inner handler once, with the request it was
\* given, and returns the inner handler's response as it is.
C22_RequireAuth ==
    [][/\ Entering("require_auth") =>
             IF creq.req.token \in Top.accepts
             THEN /\ stack' = Pop \o <<[kind |-> "entered", lambda |-> Top], Top.next>>
                  /\ ~ret'.set
                  /\ creq' = creq
             ELSE /\ stack' = Pop
                  /\ ret'.set
                  /\ ret'.response.status_code = 401
                  /\ ret'.response.body = <<"Authentication required">>
       /\ Leaving("require_auth") =>
             /\ stack' = Pop
             /\ ret'.response = ret.response]_vars

\* A require_auth whose check passed has handed back the response of the
\* handler it wraps.
C22_Witness ==
    /\ Returned
    /\ Len(chain.middlewares) = 1
    /\ chain.middlewares[1].kind = "require_auth"
    /\ creq.req.token \in chain.middlewares[1].accepts
    /\ ret.response.status_code = 200
    /\ log = << <<"pre", 1>>, <<"H", 0>>, <<"post", 1>> >>

-----------------------------------------------------------------------------
(* Registering a key a router already holds.                               *)

\* The position of key in a route table, or 0.
KeyIndex(table, key) ==
    IF \E i \in 1..Len(table) : table[i].key = key
    THEN CHOOSE i \in 1..Len(table) : table[i].key = key
    ELSE 0

\* The position of the entry find(req) stops at, or 0.
MatchIndex(table, req) ==
    LET hits == {i \in 1..Len(table) :
                    /\ table[i].key[1] = req.method
                    /\ PatternMatch(table[i].value.pattern, req.uri).matched}
    IN  IF hits = {} THEN 0 ELSE CHOOSE i \in hits : \A j \in hits : i <= j

\* What C23 says of r.route(method, pattern, handler) when the table old of
\* r holds the key at position i and new is the table of the router
\* returned.
Replaced(old, new, i, handler) ==
    /\ Len(new) = Len(old)
    /\ new[i].key = old[i].key
    /\ new[i].value.handler = handler
    /\ \A j \in 1..Len(old) : j # i => new[j] = old[j]
    /\ \A req \in Requests :
          IF MatchIndex(old, req) = i
          THEN Find(new, req).found /\ Find(new, req).handler = handler
          ELSE Find(new, req) = Find(old, req)

-----------------------------------------------------------------------------
(* One router shared by several threads.  Some threads call find() or      *)
(* handle() on it and others call route() on it; every step below is one   *)
(* thread advancing while the others stand still inside their calls.       *)

MaxThreads == 3     \* threads sharing the router

Idle == [pc |-> "idle"]

\* The router the threads are given.
SharedTables ==
    LET one == RouteTableOf(<<>>, "Get", <<"/", "a">>, "h1")
        two == RouteTableOf(one, "Get", <<"/", "b">>, "hThrow")
    IN  {<<>>, one, two}

SharedRequests == {[method |-> "Get", uri |-> <<"/", "a">>],
                   [method |-> "Get", uri |-> <<"/", "b">>]}

\* What the registering threads register.
SharedRoutes ==
    {[method |-> "Get", pattern |-> <<"/", "*">>, handler |-> "h1"],
     [method |-> "Get", pattern |-> <<"/", "a">>, handler |-> "hThrow"]}

\* route() taking the receiver's table for its own instead of a copy of it:
\* auto new_routes = std::const_pointer_cast<RouteTable>(routes_).
MakeSharedAliased(h, routes_) == [heap |-> h, ptr |-> routes_]

\* std::make_shared<RouteTable>(*routes_): a new table, equal to the
\* receiver's, that only the caller points to.
MakeShared(h, routes_) == [heap |-> Append(h, h[routes_]), ptr |-> Len(h) + 1]

\* A router is constructed and handed to the threads; its table is heap[1].
Share ==
    /\ ~shared.set
    /\ \E table \in SharedTables :
          /\ heap' = <<table>>
          /\ shared' = [set |-> TRUE, table |-> table]
    /\ threads' = [t \in 1..MaxThreads |-> Idle]
    /\ UNCHANGED <<notShared>>

\* A thread calls r.find(req) or r.handle(req): the loop of find starts at
\* the first entry of *routes_.
FindBegin ==
    /\ shared.set
    /\ \E t \in 1..MaxThreads, req \in SharedRequests, op \in {"find", "handle"} :
          /\ threads[t].pc = "idle"
          /\ threads' = [threads EXCEPT ![t] =
                 [pc |-> "finding", op |-> op, req |-> req, routes_ |-> 1, i |-> 1]]
    /\ UNCHANGED <<heap, shared, notShared>>

\* What a thread inside find becomes by looking at the entry it stands at:
\* past the end it returns nullopt, on a matching entry it returns the
\* match, otherwise it moves to the next entry.  handle goes on to run the
\* handler of the match.
FindAdvance(th, table) ==
    LET done(match, entries) ==
            IF th.op = "find"
            THEN [pc |-> "found", op |-> th.op, req |-> th.req, match |-> match]
            ELSE [pc |-> "handled", op |-> th.op, req |-> th.req, match |-> match,
                  out |-> HandleOutcome(entries, th.req)]
        next == [th EXCEPT !.i = th.i + 1]
    IN  IF th.i > Len(table) THEN done(NotFound, <<>>)
        ELSE IF table[th.i].key[1] # th.req.method THEN next
        ELSE LET params == PatternMatch(table[th.i].value.pattern, th.req.uri)
             IN  IF params.matched
                 THEN done([found |-> TRUE, handler |-> table[th.i].value.handler,
                            params |-> params.params], <<table[th.i]>>)
                 ELSE next

\* One iteration of find's loop in one thread.
FindStep ==
    /\ shared.set
    /\ \E t \in 1..MaxThreads :
          /\ threads[t].pc = "finding"
          /\ threads' = [threads EXCEPT ![t] =
                 FindAdvance(threads[t], heap[threads[t].routes_])]
    /\ UNCHANGED <<heap, shared, notShared>>

\* A thread calls r.route(method, pattern, handler) and starts copying
\* *routes_.
RouteBegin ==
    /\ shared.set
    /\ \E t \in 1..MaxThreads, e \in SharedRoutes :
          /\ threads[t].pc = "idle"
          /\ threads' = [threads EXCEPT ![t] =
                 [pc |-> "copying", routes_ |-> 1,
                  key |-> <<e.method, e.pattern>>,
                  value |-> [pattern |-> PathPatternCtor(e.pattern),
                             handler |-> e.handler]]]
    /\ UNCHANGED <<heap, shared, notShared>>

\* The copy is made and the thread starts the assignment to its entry.
RouteCopy ==
    /\ shared.set
    /\ \E t \in 1..MaxThreads :
          /\ threads[t].pc = "copying"
          /\ LET made == MakeShared(heap, threads[t].routes_)
             IN  /\ heap' = made.heap
                 /\ threads' = [threads EXCEPT ![t] =
                        [pc |-> "assigning", new_routes |-> made.ptr,
                         key |-> threads[t].key, value |-> threads[t].value]]
    /\ UNCHANGED <<shared, notShared>>

\* The assignment completes and the new router is returned to the caller.
RouteAssign ==
    /\ shared.set
    /\ \E t \in 1..MaxThreads :
          /\ threads[t].pc = "assigning"
          /\ heap' = [heap EXCEPT ![threads[t].new_routes] =
                         MapPut(@, threads[t].key, threads[t].value)]
          /\ threads' = [threads EXCEPT ![t] =
                 [pc |-> "routed", routes_ |-> threads[t].new_routes,
                  key |-> threads[t].key, value |-> threads[t].value]]
    /\ UNCHANGED <<shared, notShared>>

NextShared == Share \/ FindBegin \/ FindStep \/ RouteBegin \/ RouteCopy \/ RouteAssign

SpecShared == Init /\ [][NextShared]_vars

\* The table a thread is reading, or 0.
ReadingOf(th) == IF th.pc \in {"finding", "copying"} THEN th.routes_ ELSE 0

\* The table a thread is writing, or 0.
WritingOf(th) == IF th.pc = "assigning" THEN th.new_routes ELSE 0

\* C24: while threads call find/handle on router r and others call
\* r.route, each find on r returns what it returns on r alone, and no
\* thread reads or writes a table that another thread is writing.
C24_SharedRouterNeedsNoLock ==
    shared.set =>
        /\ heap[1] = shared.table
        /\ \A t \in 1..MaxThreads :
              /\ threads[t].pc \in {"found", "handled"} =>
                    /\ threads[t].match.found = Find(shared.table, threads[t].req).found
                    /\ threads[t].match.found =>
                          threads[t].match = Find(shared.table, threads[t].req)
              /\ threads[t].pc = "handled" =>
                    threads[t].out = HandleOutcome(shared.table, threads[t].req)
              /\ \A w \in 1..MaxThreads :
                    (w # t /\ WritingOf(threads[w]) # 0) =>
                        /\ ReadingOf(threads[t]) # WritingOf(threads[w])
                        /\ WritingOf(threads[t]) # WritingOf(threads[w])

\* A find on the shared router has returned a match in one thread while
\* another thread is inside the assignment of route and a third has its
\* new router.
C24_Witness ==
    /\ shared.set
    /\ \E t, w, v \in 1..MaxThreads :
          /\ threads[t].pc = "found"
          /\ threads[t].match.found
          /\ threads[w].pc = "assigning"
          /\ threads[v].pc = "routed"
          /\ heap[threads[v].routes_] # shared.table

-----------------------------------------------------------------------------
(* Termination of many.                                                    *)

\* C25: many(p) terminates on every input for every p, a p that can succeed
\* without consuming input included: the call returns, and the last
\* application of p its loop made is one that failed.
C25_ManyTerminates ==
    ccall.fn = "many" =>
        LET calls == ccall.result.calls
            last  == calls[Len(calls)]
        IN  /\ ccall.result.returns
            /\ calls # <<>>
            /\ ~Run(last.p, last.input).ok

-----------------------------------------------------------------------------
(* Header lines without a colon.                                           *)

\* The bytes of input before its first CRLF (the whole input when it has
\* none).
FirstLine(input) == Take(input, FindSub(input, 1, CRLF) - 1)

\* C26: parse_header fails with InvalidHeader on every input whose first
\* line, the bytes before the first CRLF, holds no ':', whatever follows
\* that CRLF.
C26_NoColonIsInvalidHeader ==
    (/\ pcall.fn = "parse_header"
     /\ FindSub(pcall.input, 1, CRLF) <= Len(pcall.input)
     /\ \A i \in 1..Len(FirstLine(pcall.input)) : FirstLine(pcall.input)[i] # ":")
        => /\ ~pcall.result.ok
           /\ pcall.result.error = "InvalidHeader"

-----------------------------------------------------------------------------
(* The alternatives of the HTTP grammar do not overlap.                    *)

\* The literal an alternative map(string(literal), f) looks for.
LiteralOf(alternative) == alternative.ps[1].s

\* The alternatives of a choice with those at positions i and j exchanged.
Exchanged(parsers, i, j) ==
    [k \in 1..Len(parsers) |->
        IF k = i THEN parsers[j] ELSE IF k = j THEN parsers[i] ELSE parsers[k]]

\* The alternatives of a choice in the opposite order.
Reversed(parsers) == [k \in 1..Len(parsers) |-> parsers[Len(parsers) + 1 - k]]

\* Two results are the same outcome: the same value and remainder, or the
\* same error.
SameOutcome(a, b) ==
    /\ a.returns = b.returns
    /\ a.ok = b.ok
    /\ a.value = b.value
    /\ a.rest = b.rest
    /\ a.error = b.error

\* At most one alternative's literal is a prefix of input, and the choice
\* gives on input the outcome it gives with its alternatives reversed and
\* with any two of them exchanged (the exchanges generate every ordering).
OrderFree(grammar, input, result) ==
    LET parsers == grammar.ps
        n == Len(parsers)
    IN  /\ \A i, j \in 1..n :
              (/\ StartsWith(input, LiteralOf(parsers[i]))
               /\ StartsWith(input, LiteralOf(parsers[j]))) => i = j
        /\ \A i \in 1..n :
              StartsWith(input, LiteralOf(parsers[i])) =>
                  SameOutcome(result, Run(parsers[i], input))
        /\ SameOutcome(result, Run(choiceOf(Reversed(parsers)), input))
        /\ \A i \in 1..n : \A j \in (i + 1)..n :
              SameOutcome(result, Run(choiceOf(Exchanged(parsers, i, j)), input))

\* C27: at most one of the nine method literals, and at most one of the
\* two version literals, is a prefix of any input, so parse_method and
\* parse_version give the same result under every ordering of their
\* alternatives.
C27_NoOverlappingAlternatives ==
    /\ Len(parse_method.ps) = 9
    /\ Len(parse_version.ps) = 2
    /\ pcall.fn = "parse_method" => OrderFree(parse_method, pcall.input, pcall.result)
    /\ pcall.fn = "parse_version" => OrderFree(parse_version, pcall.input, pcall.result)

\* parse_method has succeeded on an input that starts with the literal of
\* an alternative other than its first and goes on after it.
C27_Witness ==
    /\ pcall.fn = "parse_method"
    /\ pcall.result.ok
    /\ pcall.result.value = <<"Post">>
    /\ pcall.result.rest # <<>>

-----------------------------------------------------------------------------
(* threadpool::Channel.  Every member function holds mutex_ from its first *)
(* statement to its return, except while it is blocked inside cv_.wait, so *)
(* a call is one step when its predicate holds, and otherwise a step into  *)
(* the wait, a wake-up by a notify, and a step that evaluates the          *)
(* predicate again under the mutex.  A thread is outside a call ("out"),   *)
(* blocked in cv_.wait ("waiting") or unblocked and about to take mutex_   *)
(* again ("woken").                                                        *)

MaxSenders   == 2     \* threads calling send or try_send
MaxReceivers == 2     \* threads calling recv or try_recv
MaxQueue     == 2     \* largest max_size_ a channel is constructed with

\* Channel(max_size)
NewChannel(max_size) ==
    [made |-> TRUE, queue_ |-> <<>>, closed_ |-> FALSE, max_size_ |-> max_size]

\* A wait predicate of send that does not look at the size of the queue.
CanSendAlways(ch) == TRUE

\* The predicate send waits for.
CanSend(ch) == Len(ch.queue_) < ch.max_size_ \/ ch.closed_

\* The predicate recv waits for.
CanRecv(ch) == ch.queue_ # <<>> \/ ch.closed_

\* send on a closed channel that goes on to push as on an open one.
SendRefusedNever(ch) == FALSE

\* if (closed_) return false; in send, after the wait.
SendRefused(ch) == ch.closed_

\* try_send that does not look at closed_.
TrySendRefusedWhenFull(ch) == Len(ch.queue_) >= ch.max_size_

\* if (closed_ || queue_.size() >= max_size_) return false; in try_send.
TrySendRefused(ch) == ch.closed_ \/ Len(ch.queue_) >= ch.max_size_

\* A pop that leaves the front item in the queue.
PoppedNothing(q) == q

\* queue_.pop() after the front item has been moved out.
Popped(q) == Tail(q)

\* The threads blocked in cv_.wait.
Waiters(ths) == {t \in DOMAIN ths : ths[t].pc = "waiting"}

\* A close() that notifies as send and recv do.
NotifyAllAsOne(ths) ==
    IF Waiters(ths) = {} THEN {ths}
    ELSE {[ths EXCEPT ![w].pc = "woken"] : w \in Waiters(ths)}

\* cv_.notify_all(): every blocked thread is unblocked.
NotifyAll(ths) ==
    {[t \in DOMAIN ths |->
         IF ths[t].pc = "waiting" THEN [ths[t] EXCEPT !.pc = "woken"] ELSE ths[t]]}

\* cv_.notify_one(): the threads after it, for each choice the condition
\* variable can make.  One of the blocked threads is unblocked, whichever
\* predicate it waits for; nothing happens when no thread is blocked.
NotifyOne(ths) ==
    IF Waiters(ths) = {} THEN {ths}
    ELSE {[ths EXCEPT ![w].pc = "woken"] : w \in Waiters(ths)}

\* A channel is constructed and given to MaxSenders senders and
\* MaxReceivers receivers, each of which makes one call: a thread that
\* makes several calls one after the other behaves as that many threads.
\* accepted lists the values pushed, each known by its place in that list,
\* and delivered the values handed out, in the order it happened.  A thread
\* keeps what its call returned (ret, and got for a value received) and
\* whether the channel was closed when it returned (late).
Open ==
    /\ ~chan.made
    /\ \E max_size \in 1..MaxQueue :
          chan' = NewChannel(max_size) @@ [accepted |-> <<>>, delivered |-> <<>>]
    /\ cthreads' = [t \in 1..(MaxSenders + MaxReceivers) |->
                       [role |-> IF t <= MaxSenders THEN "send" ELSE "recv",
                        pc |-> "out", left |-> 1, ret |-> "none", got |-> 0,
                        late |-> FALSE]]
    /\ UNCHANGED notChannel

\* Thread t returns from its call.
Return(t, result, value) ==
    [cthreads EXCEPT ![t].pc = "out", ![t].left = @ - 1, ![t].ret = result,
                     ![t].got = value, ![t].late = chan.closed_]

\* queue_.push(value); cv_.notify_one(); return true;
Push(t) ==
    /\ chan' = [chan EXCEPT !.queue_ = Append(@, Len(chan.accepted) + 1),
                            !.accepted = Append(@, Len(chan.accepted) + 1)]
    /\ cthreads' \in NotifyOne(Return(t, "true", 0))

\* value = front; queue_.pop(); cv_.notify_one(); return value;
PopFront(t) ==
    /\ chan' = [chan EXCEPT !.queue_ = Popped(@),
                            !.delivered = Append(@, Head(chan.queue_))]
    /\ cthreads' \in NotifyOne(Return(t, "value", Head(chan.queue_)))

\* The body of send in thread t with mutex_ held: block when the predicate
\* is false; return false on a closed channel; otherwise push, notify and
\* return true.
SendLocked(t) ==
    IF ~CanSend(chan)
    THEN /\ cthreads' = [cthreads EXCEPT ![t].pc = "waiting"]
         /\ chan' = chan
    ELSE IF SendRefused(chan)
    THEN /\ cthreads' = Return(t, "false", 0)
         /\ chan' = chan
    ELSE Push(t)

\* The body of recv in thread t with mutex_ held: block when the predicate
\* is false; return nullopt when the queue is empty (the channel is then
\* closed); otherwise pop, notify and return the value.
RecvLocked(t) ==
    IF ~CanRecv(chan)
    THEN /\ cthreads' = [cthreads EXCEPT ![t].pc = "waiting"]
         /\ chan' = chan
    ELSE IF chan.queue_ = <<>>
    THEN /\ cthreads' = Return(t, "nullopt", 0)
         /\ chan' = chan
    ELSE PopFront(t)

\* A sender calls send(value).
SendEnter ==
    /\ chan.made
    /\ \E t \in DOMAIN cthreads :
          /\ cthreads[t].role = "send"
          /\ cthreads[t].pc = "out"
          /\ cthreads[t].left > 0
          /\ SendLocked(t)
    /\ UNCHANGED notChannel

\* A sender unblocked inside cv_.wait takes mutex_ and goes on.
SendResume ==
    /\ chan.made
    /\ \E t \in DOMAIN cthreads :
          /\ cthreads[t].role = "send"
          /\ cthreads[t].pc = "woken"
          /\ SendLocked(t)
    /\ UNCHANGED notChannel

\* A receiver calls recv().
RecvEnter ==
    /\ chan.made
    /\ \E t \in DOMAIN cthreads :
          /\ cthreads[t].role = "recv"
          /\ cthreads[t].pc = "out"
          /\ cthreads[t].left > 0
          /\ RecvLocked(t)
    /\ UNCHANGED notChannel

\* A receiver unblocked inside cv_.wait takes mutex_ and goes on.
RecvResume ==
    /\ chan.made
    /\ \E t \in DOMAIN cthreads :
          /\ cthreads[t].role = "recv"
          /\ cthreads[t].pc = "woken"
          /\ RecvLocked(t)
    /\ UNCHANGED notChannel

\* A sender calls try_send(value): false on a closed or full channel,
\* otherwise push, notify and true.  It never blocks.
TrySend ==
    /\ chan.made
    /\ \E t \in DOMAIN cthreads :
          /\ cthreads[t].role = "send"
          /\ cthreads[t].pc = "out"
          /\ cthreads[t].left > 0
          /\ IF TrySendRefused(chan)
             THEN /\ cthreads' = Return(t, "false", 0)
                  /\ chan' = chan
             ELSE Push(t)
    /\ UNCHANGED notChannel

\* A receiver calls try_recv(): nullopt on an empty queue, otherwise pop,
\* notify and the value.  It never blocks and does not read closed_.
TryRecv ==
    /\ chan.made
    /\ \E t \in DOMAIN cthreads :
          /\ cthreads[t].role = "recv"
          /\ cthreads[t].pc = "out"
          /\ cthreads[t].left > 0
          /\ IF chan.queue_ = <<>>
             THEN /\ cthreads' = Return(t, "nullopt", 0)
                  /\ chan' = chan
             ELSE PopFront(t)
    /\ UNCHANGED notChannel

\* Some thread calls close() on the open channel.
Close ==
    /\ chan.made
    /\ ~chan.closed_
    /\ chan' = [chan EXCEPT !.closed_ = TRUE]
    /\ cthreads' \in NotifyAll(cthreads)
    /\ UNCHANGED notChannel

\* std::condition_variable::wait may unblock without a notify.
SpuriousWake ==
    /\ chan.made
    /\ \E t \in Waiters(cthreads) :
          cthreads' = [cthreads EXCEPT ![t].pc = "woken"]
    /\ UNCHANGED <<chan, notChannel>>

NextChannel ==
    \/ Open
    \/ SendEnter
    \/ SendResume
    \/ RecvEnter
    \/ RecvResume
    \/ TrySend
    \/ TryRecv
    \/ Close
    \/ SpuriousWake

SpecChannel == Init /\ [][NextChannel]_vars

\* A thread that has been unblocked gets to take the mutex again.
SpecChannelFair ==
    SpecChannel /\ WF_vars(SendResume) /\ WF_vars(RecvResume)

\* Thread t is blocked although the predicate it waits for holds.
WaitsInVain(t) ==
    /\ cthreads[t].pc = "waiting"
    /\ IF cthreads[t].role = "send" THEN CanSend(chan) ELSE CanRecv(chan)

\* No thread is on its way to a notify: each is blocked or has made its
\* last call.
NoneRunning ==
    \A u \in DOMAIN cthreads :
        \/ cthreads[u].pc = "waiting"
        \/ cthreads[u].pc = "out" /\ cthreads[u].left = 0

\* C28: on an open bounded channel shared by several senders and
\* receivers no wake-up is lost: the channel never reaches a state where a
\* sender is blocked although the queue is not full, or a receiver although
\* it is not empty, and no running thread will wake it.
C28_NoLostWakeup ==
    (chan.made /\ ~chan.closed_) => ~(NoneRunning /\ \E t \in DOMAIN cthreads : WaitsInVain(t))

-----------------------------------------------------------------------------
(* threadpool::ThreadPool.  Workers run worker_loop, other threads call    *)
(* submit, and one thread calls shutdown and later destroys the pool.  A   *)
(* task is known by the number it was created with.  Each submitting       *)
(* thread makes one call: a thread that makes several calls one after the  *)
(* other behaves as that many threads of which each begins when the one    *)
(* before it has returned.                                                 *)

MaxWorkers    == 1     \* num_threads of the pool
MaxSubmitters == 2     \* threads calling submit

Workers    == 1..MaxWorkers
Submitters == (MaxWorkers + 1)..(MaxWorkers + MaxSubmitters)
Stopper    == MaxWorkers + MaxSubmitters + 1

\* What the callable given to submit does when it is invoked.
TaskKinds == {"return", "throw_std", "throw_other"}

\* A future: not ready, ready with a TaskResult (a value when ok, an error
\* text otherwise), or ready with an exception.
Pending == [state |-> "pending", ok |-> FALSE, text |-> ""]
Ready(ok, text) == [state |-> "ready", ok |-> ok, text |-> text]
Excepted(text) == [state |-> "exception", ok |-> FALSE, text |-> text]

\* bound_task without its catch (...): a fault that is not a
\* std::exception leaves the task.
BoundTaskStdOnly(kind) ==
    CASE kind = "return"      -> [returns |-> TRUE, ok |-> TRUE, text |-> "value"]
      [] kind = "throw_std"   -> [returns |-> TRUE, ok |-> FALSE, text |-> "boom"]
      [] kind = "throw_other" -> [returns |-> FALSE, ok |-> FALSE, text |-> ""]

\* The bound_task submit builds around the callable: the callable's value,
\* or unexpected(e.what()) for a std::exception ("boom" here) and
\* unexpected("Unknown error") for any other fault.
BoundTask(kind) ==
    CASE kind = "return"      -> [returns |-> TRUE, ok |-> TRUE, text |-> "value"]
      [] kind = "throw_std"   -> [returns |-> TRUE, ok |-> FALSE, text |-> "boom"]
      [] kind = "throw_other" -> [returns |-> TRUE, ok |-> FALSE, text |-> "Unknown error"]

\* TaskImpl::execute: the promise gets the task's result, or the exception
\* that left the task.
Execute(kind) ==
    LET result == BoundTask(kind)
    IN  IF result.returns THEN Ready(result.ok, result.text)
        ELSE Excepted("current_exception")

\* ThreadPool(num_threads, max_queue_size): the channel is constructed and
\* the workers are started at the top of worker_loop.
NewPool ==
    /\ ~pool.made
    /\ \E max_queue_size \in 1..MaxQueue :
          pool' = [made |-> TRUE, ch |-> NewChannel(max_queue_size),
                   running_ |-> TRUE, destroyed |-> FALSE,
                   created |-> 0, kind |-> <<>>, future |-> <<>>,
                   accepted |-> {}, refused |-> {}, late |-> {},
                   executed |-> <<>>, by |-> <<>>, ready |-> {}]
    /\ pthreads' = [t \in 1..Stopper |->
                       [role |-> IF t \in Workers THEN "worker"
                                 ELSE IF t \in Submitters THEN "submit"
                                 ELSE "shutdown",
                        pc |-> IF t \in Workers THEN "loop" ELSE "out",
                        task |-> 0, stop |-> FALSE, left |-> 1]]
    /\ UNCHANGED notPool

\* stoken.stop_requested() at the top of worker_loop.
StopSeen(th) == th.stop

\* A worker at the loop condition: it leaves when a stop has been
\* requested, and calls recv otherwise.  recv with mutex_ held blocks while
\* the queue is empty and the channel open, returns nullopt (and the loop
\* breaks) when the queue is empty and the channel closed, and otherwise
\* pops the front task and notifies.  On a channel that has been destroyed
\* the call is undefined: it may come back empty or never come back.
WorkerRecv(t) ==
    IF pool.destroyed
    THEN /\ \E pc \in {"exited", "waiting"} :
               pthreads' = [pthreads EXCEPT ![t].pc = pc]
         /\ pool' = pool
    ELSE IF ~CanRecv(pool.ch)
    THEN /\ pthreads' = [pthreads EXCEPT ![t].pc = "waiting"]
         /\ pool' = pool
    ELSE IF pool.ch.queue_ = <<>>
    THEN /\ pthreads' = [pthreads EXCEPT ![t].pc = "exited"]
         /\ pool' = pool
    ELSE /\ pool' = [pool EXCEPT !.ch.queue_ = Popped(@)]
         /\ pthreads' \in NotifyOne([pthreads EXCEPT ![t].pc = "executing",
                                                     ![t].task = Head(pool.ch.queue_)])

WorkerLoop ==
    /\ pool.made
    /\ \E t \in Workers :
          /\ pthreads[t].pc = "loop"
          /\ IF StopSeen(pthreads[t])
             THEN /\ pthreads' = [pthreads EXCEPT ![t].pc = "exited"]
                  /\ pool' = pool
             ELSE WorkerRecv(t)
    /\ UNCHANGED notPool

\* A worker unblocked inside recv's cv_.wait takes mutex_ and goes on.
WorkerResume ==
    /\ pool.made
    /\ \E t \in Workers :
          /\ pthreads[t].pc = "woken"
          /\ WorkerRecv(t)
    /\ UNCHANGED notPool

\* task->execute(): the task runs and its promise is given the result.
WorkerExecute ==
    /\ pool.made
    /\ \E t \in Workers :
          /\ pthreads[t].pc = "executing"
          /\ pool' = [pool EXCEPT
                          !.executed = Append(@, pthreads[t].task),
                          !.by = Append(@, t),
                          !.ready = @ \cup {pthreads[t].task},
                          !.future[pthreads[t].task] =
                              Execute(pool.kind[pthreads[t].task])]
          /\ pthreads' = [pthreads EXCEPT ![t].pc = "loop", ![t].task = 0]
    /\ UNCHANGED notPool

\* task_channel_.send(any_task) inside submit with mutex_ held, p being
\* the pool as it is then: block while the queue is full and the channel
\* open; on a closed channel return false, and submit returns a ready
\* future holding "Thread pool shut down" while the task is dropped;
\* otherwise push, notify, and submit returns the task's future.
SubmitSend(p, t, task) ==
    IF ~CanSend(p.ch)
    THEN /\ pthreads' = [pthreads EXCEPT ![t].pc = "waiting", ![t].task = task]
         /\ pool' = p
    ELSE IF SendRefused(p.ch)
    THEN /\ pthreads' = [pthreads EXCEPT ![t].pc = "out", ![t].task = 0,
                                          ![t].left = @ - 1]
         /\ pool' = [p EXCEPT !.refused = @ \cup {task},
                              !.future[task] = Ready(FALSE, "Thread pool shut down")]
    ELSE /\ pool' = [p EXCEPT !.ch.queue_ = Append(@, task),
                              !.accepted = @ \cup {task}]
         /\ pthreads' \in NotifyOne([pthreads EXCEPT ![t].pc = "out",
                                                     ![t].task = 0,
                                                     ![t].left = @ - 1])

\* A thread calls submit(f) on a pool that is alive: the task and its
\* promise are made and sent.  late remembers the tasks whose submit was
\* called when shutdown() had returned.
Submit ==
    /\ pool.made
    /\ ~pool.destroyed
    /\ \E t \in Submitters, kind \in TaskKinds :
          /\ pthreads[t].pc = "out"
          /\ pthreads[t].left > 0
          /\ SubmitSend([pool EXCEPT !.created = @ + 1,
                                     !.kind = Append(@, kind),
                                     !.future = Append(@, Pending),
                                     !.late = IF pthreads[Stopper].pc = "done"
                                              THEN @ \cup {pool.created + 1}
                                              ELSE @],
                        t, pool.created + 1)
    /\ UNCHANGED notPool

\* A submitter unblocked inside send's cv_.wait takes mutex_ and goes on.
SubmitResume ==
    /\ pool.made
    /\ \E t \in Submitters :
          /\ pthreads[t].pc = "woken"
          /\ SubmitSend(pool, t, pthreads[t].task)
    /\ UNCHANGED notPool

\* shutdown() up to the loop over the workers: running_.exchange(false)
\* and, when it was true, task_channel_.close(), which sets closed_ and
\* notifies every blocked thread.
ShutdownClose ==
    /\ pool.made
    /\ pthreads[Stopper].pc = "out"
    /\ pool.running_
    /\ pool' = [pool EXCEPT !.running_ = FALSE, !.ch.closed_ = TRUE]
    /\ \E ths \in NotifyAll(pthreads) :
          pthreads' = [ths EXCEPT ![Stopper].pc = "stopping", ![Stopper].task = 1]
    /\ UNCHANGED notPool

\* One iteration of shutdown's loop: worker.request_stop() on the next
\* worker.
ShutdownRequestStop ==
    /\ pool.made
    /\ pthreads[Stopper].pc = "stopping"
    /\ LET w == pthreads[Stopper].task
       IN  pthreads' = [pthreads EXCEPT
                           ![w].stop = TRUE,
                           ![Stopper].task = w + 1,
                           ![Stopper].pc = IF w = MaxWorkers THEN "done" ELSE "stopping"]
    /\ UNCHANGED <<pool, notPool>>

\* ~ThreadPool() after its shutdown(): the members are destroyed in the
\* reverse of their declaration order, running_ first and then
\* task_channel_, with the tasks still queued in it, whose promises are
\* broken.  (The threads calling submit are the owner's: none of them is
\* inside a call when the owner destroys the pool.)
DestroyChannel ==
    /\ pool.made
    /\ pthreads[Stopper].pc = "done"
    /\ \A t \in Submitters : pthreads[t].pc = "out"
    /\ pool' = [pool EXCEPT
                    !.destroyed = TRUE,
                    !.ch.queue_ = <<>>,
                    !.future = [task \in DOMAIN pool.future |->
                                   IF \E i \in 1..Len(pool.ch.queue_) :
                                          pool.ch.queue_[i] = task
                                   THEN Excepted("broken_promise")
                                   ELSE pool.future[task]]]
    /\ pthreads' = [pthreads EXCEPT ![Stopper].pc = "joining"]
    /\ UNCHANGED notPool

\* The last member destroyed is workers_: each std::jthread is joined, and
\* the destructor returns when every worker has left worker_loop.
JoinWorkers ==
    /\ pool.made
    /\ pthreads[Stopper].pc = "joining"
    /\ \A w \in Workers : pthreads[w].pc = "exited"
    /\ pthreads' = [pthreads EXCEPT ![Stopper].pc = "destroyed"]
    /\ UNCHANGED <<pool, notPool>>

\* A blocked worker or submitter is unblocked without a notify.
PoolSpuriousWake ==
    /\ pool.made
    /\ \E t \in Waiters(pthreads) :
          pthreads' = [pthreads EXCEPT ![t].pc = "woken"]
    /\ UNCHANGED <<pool, notPool>>

NextPool ==
    \/ NewPool
    \/ WorkerLoop
    \/ WorkerResume
    \/ WorkerExecute
    \/ Submit
    \/ SubmitResume
    \/ ShutdownClose
    \/ ShutdownRequestStop
    \/ DestroyChannel
    \/ JoinWorkers
    \/ PoolSpuriousWake

SpecPool == Init /\ [][NextPool]_vars

\* How many times task was executed.
Executions(task) ==
    Cardinality({i \in 1..Len(pool.executed) : pool.executed[i] = task})

\* Every worker has left worker_loop.
AllExited == \A w \in Workers : pthreads[w].pc = "exited"

\* C29: every task submit accepted is executed exactly once and its future
\* becomes ready, tasks still queued at shutdown() included: no task is
\* executed twice, and the workers do not all leave while an accepted task
\* is still to be executed.
C29_AcceptedTasksRun ==
    pool.made =>
        /\ \A task \in pool.accepted : Executions(task) <= 1
        /\ \A task \in pool.ready : task \in pool.accepted /\ Executions(task) = 1
        /\ AllExited => \A task \in pool.accepted :
                            Executions(task) = 1 /\ task \in pool.ready

-----------------------------------------------------------------------------
(* logger::AsyncSink.  write() puts entries into a channel, a worker       *)
(* thread takes them out and writes them to the inner sink, and flush()    *)
(* waits for the channel to be empty.  An entry is known by its number.    *)

MaxEntries == 3     \* write calls the caller makes

SinkWorker == 1
SinkCaller == 2

\* AsyncSink(sink, buffer_size): the channel is constructed and the worker
\* started at the top of worker_loop.
NewSink ==
    /\ ~sink.made
    /\ \E buffer_size \in 1..MaxQueue :
          sink' = [made |-> TRUE, ch |-> NewChannel(buffer_size),
                   offered |-> 0, accepted |-> {}, written |-> <<>>, flushed |-> 0]
    /\ sthreads' = [t \in {SinkWorker, SinkCaller} |->
                       [pc |-> IF t = SinkWorker THEN "loop" ELSE "out",
                        entry |-> 0, before |-> {}]]
    /\ UNCHANGED notSink

\* write(entry): channel_->try_send(entry), whose result is dropped.  A
\* full (or closed) channel refuses the entry; otherwise it is pushed and
\* one blocked thread notified.
SinkWrite ==
    /\ sink.made
    /\ sthreads[SinkCaller].pc \in {"out", "flushed"}
    /\ sink.offered < MaxEntries
    /\ LET entry == sink.offered + 1
           out == [sthreads EXCEPT ![SinkCaller].pc = "out"]
       IN  IF sink.ch.closed_ \/ Len(sink.ch.queue_) >= sink.ch.max_size_
           THEN /\ sink' = [sink EXCEPT !.offered = entry]
                /\ sthreads' = out
           ELSE /\ sink' = [sink EXCEPT !.offered = entry,
                                        !.ch.queue_ = Append(@, entry),
                                        !.accepted = @ \cup {entry}]
                /\ sthreads' \in NotifyOne(out)
    /\ UNCHANGED notSink

\* flush() is called: the caller enters the loop on channel_->size().
FlushCall ==
    /\ sink.made
    /\ sthreads[SinkCaller].pc \in {"out", "flushed"}
    /\ sthreads' = [sthreads EXCEPT ![SinkCaller].pc = "polling",
                                    ![SinkCaller].before = sink.accepted]
    /\ UNCHANGED <<sink, notSink>>

\* What flush's loop condition waits for: channel_->size() is 0.
SeenEmpty(ch) == Len(ch.queue_) = 0

\* One evaluation of flush's loop condition: sleep and stay in the loop
\* while channel_->size() > 0, leave it otherwise.
FlushPoll ==
    /\ sink.made
    /\ sthreads[SinkCaller].pc = "polling"
    /\ sthreads' = [sthreads EXCEPT ![SinkCaller].pc =
                       IF SeenEmpty(sink.ch) THEN "inner" ELSE "polling"]
    /\ UNCHANGED <<sink, notSink>>

\* inner_sink_->flush(), and flush returns.
FlushInner ==
    /\ sink.made
    /\ sthreads[SinkCaller].pc = "inner"
    /\ sink' = [sink EXCEPT !.flushed = Len(sink.written)]
    /\ sthreads' = [sthreads EXCEPT ![SinkCaller].pc = "flushed"]
    /\ UNCHANGED notSink

\* channel_->recv() in the worker with mutex_ held: block while the queue
\* is empty, otherwise pop the front entry and notify.
SinkRecv ==
    IF ~CanRecv(sink.ch)
    THEN /\ sthreads' = [sthreads EXCEPT ![SinkWorker].pc = "waiting"]
         /\ sink' = sink
    ELSE IF sink.ch.queue_ = <<>>
    THEN /\ sthreads' = [sthreads EXCEPT ![SinkWorker].pc = "exited"]
         /\ sink' = sink
    ELSE /\ sink' = [sink EXCEPT !.ch.queue_ = Popped(@)]
         /\ sthreads' \in NotifyOne([sthreads EXCEPT
                                        ![SinkWorker].pc = "writing",
                                        ![SinkWorker].entry = Head(sink.ch.queue_)])

\* The worker at the top of worker_loop calls recv (no stop is requested
\* of it while the sink is in use).
SinkWorkerLoop ==
    /\ sink.made
    /\ sthreads[SinkWorker].pc = "loop"
    /\ SinkRecv
    /\ UNCHANGED notSink

\* The worker unblocked inside recv's cv_.wait takes mutex_ and goes on.
SinkWorkerResume ==
    /\ sink.made
    /\ sthreads[SinkWorker].pc = "woken"
    /\ SinkRecv
    /\ UNCHANGED notSink

\* The blocked worker is unblocked without a notify.
SinkSpuriousWake ==
    /\ sink.made
    /\ sthreads[SinkWorker].pc = "waiting"
    /\ sthreads' = [sthreads EXCEPT ![SinkWorker].pc = "woken"]
    /\ UNCHANGED <<sink, notSink>>

\* inner_sink_->write(*entry) in the worker.
SinkWorkerWrite ==
    /\ sink.made
    /\ sthreads[SinkWorker].pc = "writing"
    /\ sink' = [sink EXCEPT !.written = Append(@, sthreads[SinkWorker].entry)]
    /\ sthreads' = [sthreads EXCEPT ![SinkWorker].pc = "loop",
                                    ![SinkWorker].entry = 0]
    /\ UNCHANGED notSink

NextSink ==
    \/ NewSink
    \/ SinkWrite
    \/ FlushCall
    \/ FlushPoll
    \/ FlushInner
    \/ SinkWorkerLoop
    \/ SinkWorkerResume
    \/ SinkSpuriousWake
    \/ SinkWorkerWrite

SpecSink == Init /\ [][NextSink]_vars

\* The entries the inner sink has been given.
Written == {sink.written[i] : i \in 1..Len(sink.written)}

\* C30: flush() is a barrier: when it returns, every entry write() put
\* into the buffer before flush() was called has been written to the inner
\* sink.
C30_FlushIsBarrier ==
    (sink.made /\ sthreads[SinkCaller].pc = "flushed")
        => sthreads[SinkCaller].before \subseteq Written

-----------------------------------------------------------------------------
(* Destruction of a ThreadPool.                                            *)

\* Worker w is inside task_channel_.recv(): blocked in its wait, or
\* unblocked and about to take the channel's mutex again.
InsideRecv(w) == pthreads[w].pc \in {"waiting", "woken"}

\* C31: when a ThreadPool is destroyed every worker has completed its last
\* recv before the task channel is destroyed: no worker is inside recv on
\* a channel that no longer exists.
C31_TeardownIsOrdered ==
    (pool.made /\ pool.destroyed) => \A w \in Workers : ~InsideRecv(w)

-----------------------------------------------------------------------------
(* submit on a pool that has been shut down.                               *)

\* Task was run by a worker.
Executed(task) == \E i \in 1..Len(pool.executed) : pool.executed[i] = task

\* C36: submit called after shutdown() returns a future that is already
\* ready and holds the error "Thread pool shut down", and the callable is
\* never executed (nor left in the queue).
C36_SubmitAfterShutdown ==
    pool.made =>
        \A task \in pool.late :
            /\ task \in pool.refused
            /\ pool.future[task] = Ready(FALSE, "Thread pool shut down")
            /\ ~Executed(task)
            /\ \A i \in 1..Len(pool.ch.queue_) : pool.ch.queue_[i] # task

\* A callable of each kind was submitted after shutdown() had returned, with
\* room in the queue, and was turned away.
C36_Witness ==
    /\ pool.made
    /\ ~pool.destroyed
    /\ Len(pool.ch.queue_) < pool.ch.max_size_
    /\ \E a, b \in pool.late :
          /\ pool.kind[a] = "return"
          /\ pool.kind[b] = "throw_other"
          /\ pool.refused = {a, b}

-----------------------------------------------------------------------------
(* A task that raises inside a worker.                                     *)

\* The error text submit's bound_task is to give for a callable that
\* raises: the message of a std::exception, "Unknown error" otherwise.
FaultText(kind) == IF kind = "throw_std" THEN "boom" ELSE "Unknown error"

\* C37: when a worker executes a task whose callable raises, the task's
\* future becomes ready with an error value holding the fault's message
\* ("Unknown error" for a fault that has none), and the worker is back at
\* the top of worker_loop, from where it receives and executes later tasks.
C37_RaisingTaskKeepsWorker ==
    [][(pool.made /\ pool'.made /\ Len(pool'.executed) = Len(pool.executed) + 1)
         => LET task == pool'.executed[Len(pool'.executed)]
                w == pool'.by[Len(pool'.by)]
            IN  pool.kind[task] # "return"
                  => /\ pool'.future[task] = Ready(FALSE, FaultText(pool.kind[task]))
                     /\ pthreads'[w].pc = "loop"]_vars

\* One worker executed a callable that raised something that is not a
\* std::exception and, after it, a second task.
C37_Witness ==
    /\ pool.made
    /\ \E i, j \in 1..Len(pool.executed) :
          /\ i < j
          /\ pool.by[i] = pool.by[j]
          /\ pool.kind[pool.executed[i]] = "throw_other"
          /\ pool.future[pool.executed[i]] = Ready(FALSE, "Unknown error")
          /\ pool.future[pool.executed[j]].state = "ready"

-----------------------------------------------------------------------------
(* What a Channel hands out, how much it holds, and close().               *)

ChannelThreads == 1..(MaxSenders + MaxReceivers)

\* The calls of the given role that have returned ret.
ReturnedWith(role, result) ==
    {t \in ChannelThreads : cthreads[t].role = role /\ cthreads[t].ret = result}

\* C32: every value a recv or try_recv has returned was pushed by exactly
\* one send or try_send that returned true, no value is returned twice, and
\* the values are handed out in the order they were accepted: the values
\* delivered so far, followed by the queue, are the values accepted so far.
C32_DeliversOnceInOrder ==
    chan.made =>
        /\ chan.delivered \o chan.queue_ = chan.accepted
        /\ \A i, j \in 1..Len(chan.accepted) :
               chan.accepted[i] = chan.accepted[j] => i = j
        /\ Cardinality(ReturnedWith("send", "true")) = Len(chan.accepted)
        /\ {cthreads[t].got : t \in ReturnedWith("recv", "value")}
               = {chan.delivered[i] : i \in 1..Len(chan.delivered)}
        /\ Cardinality(ReturnedWith("recv", "value")) = Len(chan.delivered)

\* Two receivers have each been handed one of two accepted values.
C32_Witness ==
    /\ chan.made
    /\ chan.delivered = <<1, 2>>
    /\ \E r1, r2 \in ReturnedWith("recv", "value") :
          cthreads[r1].got = 1 /\ cthreads[r2].got = 2

\* C33: the queue never holds more than max_size items, whatever the
\* interleaving of send, try_send, recv, try_recv and close.
C33_QueueBounded ==
    chan.made => Len(chan.queue_) <= chan.max_size_

\* The queue of an open channel is full and a sender is blocked in send.
C33_Witness ==
    /\ chan.made
    /\ ~chan.closed_
    /\ Len(chan.queue_) = chan.max_size_
    /\ \E t \in ChannelThreads : cthreads[t].pc = "waiting" /\ cthreads[t].role = "send"

\* Thread t returns from its call in this step.
Returns(t) == cthreads[t].left = 1 /\ cthreads'[t].left = 0

\* C34: once close() has run, a send or try_send that returns returns false
\* and leaves the queue as it was, even when it has room; a recv or
\* try_recv that returns hands out the front item while there is one, and
\* returns empty only when the queue is empty.
C34_CloseDrainsThenStops ==
    [][(chan.made /\ chan.closed_) =>
          \A t \in ChannelThreads :
              Returns(t) =>
                  IF cthreads[t].role = "send"
                  THEN /\ cthreads'[t].ret = "false"
                       /\ chan'.queue_ = chan.queue_
                  ELSE IF chan.queue_ # <<>>
                  THEN /\ cthreads'[t].ret = "value"
                       /\ cthreads'[t].got = Head(chan.queue_)
                       /\ chan'.queue_ = Tail(chan.queue_)
                  ELSE /\ cthreads'[t].ret = "nullopt"
                       /\ chan'.queue_ = chan.queue_]_vars

\* After close(): a sender was turned away although the queue had room,
\* a receiver was handed an item queued before, and another found the
\* queue empty.
C34_Witness ==
    /\ chan.made
    /\ chan.closed_
    /\ chan.max_size_ > Len(chan.accepted)
    /\ \E s \in ReturnedWith("send", "false") : cthreads[s].late
    /\ \E r \in ReturnedWith("recv", "value") : cthreads[r].late
    /\ \E r \in ReturnedWith("recv", "nullopt") : cthreads[r].late

\* Thread t is inside a call: blocked or on its way out of the wait.
Inside(t) == chan.made /\ cthreads[t].pc # "out"

\* C35: close() releases every waiter: a thread that is inside send or recv
\* when the channel is closed returns, and so no call blocks for ever on a
\* closed channel.
C35_CloseReleasesWaiters ==
    \A t \in ChannelThreads :
        (chan.made /\ chan.closed_ /\ Inside(t)) ~> (chan.made /\ ~Inside(t))

\* close() has run with two threads inside their waits (no thread enters a
\* wait on a closed channel): both have been unblocked and are about to
\* take the mutex again.
C35_Witness ==
    /\ chan.made
    /\ chan.closed_
    /\ \E t, u \in ChannelThreads :
          /\ t # u
          /\ cthreads[t].pc = "woken"
          /\ cthreads[u].pc = "woken"

-----------------------------------------------------------------------------
(* The errors of parse_http_request.                                       *)

\* enum class ParseError
ParseErrors ==
    {"InvalidMethod", "InvalidUri", "InvalidVersion", "InvalidHeader",
     "IncompleteRequest", "MalformedRequest"}

-----------------------------------------------------------------------------
(* Termination of parse_headers.                                           *)

\* The loop of parse_headers is being followed.
InHeadersLoop == pcall.fn = "parse_headers loop"

\* What the loop has done so far keeps within the input: every iteration
\* that went round took at least the three bytes of the shortest header
\* line from the remaining input, and a call that has returned returned a
\* mapping or InvalidHeader, the result of parse_headers on the input.
HeadersProgress ==
    /\ ~pcall.result.done =>
           3 * pcall.result.iterations + Len(pcall.result.current_input)
               <= Len(pcall.input)
    /\ pcall.result.done =>
           /\ 3 * (pcall.result.iterations - 1) + Len(pcall.result.current_input)
                  <= Len(pcall.input)
           /\ pcall.result.outcome = ParseHeaders(pcall.input)
           /\ \/ pcall.result.outcome.ok
              \/ pcall.result.outcome.error = "InvalidHeader"

\* C39 as stated: parse_headers terminates on every finite input, the
\* remaining input shrinking with every iteration that does not return,
\* after at most as many iterations as the input has bytes.
C39_HeadersTerminate ==
    InHeadersLoop =>
        /\ HeadersProgress
        /\ pcall.result.iterations <= Len(pcall.input)

\* C39 amended: parse_headers terminates on every finite input, the
\* remaining input shrinking by at least a header line with every iteration
\* that does not return, after at most one iteration more than the input
\* has bytes (the empty input takes one iteration).
C39_HeadersTerminateWithinOneMore ==
    InHeadersLoop =>
        /\ HeadersProgress
        /\ pcall.result.iterations <= Len(pcall.input) + 1

\* parse_headers has returned a mapping in the iteration after the one that
\* took the last of MaxHeaderLines header lines.
C39_Witness ==
    /\ InHeadersLoop
    /\ pcall.result.done
    /\ pcall.result.outcome.ok
    /\ pcall.result.iterations = MaxHeaderLines + 1

====
